---- MODULE Spec2Model ----
(***************************************************************************)
(* Slowverb: the granular pitch shifter (PitchShifterProcessor, an         *)
(* AudioWorkletProcessor) of src/src/lib/constants.js, lines 768-980.      *)
(*                                                                         *)
(* Sizes are counted in units of 256 samples: the source's grain sizes     *)
(* 512 / 2048 / 4096 are 2 / 8 / 16 here, so the input ring (4 x 2048)     *)
(* has 32 slots and the overlap-add accumulator (2 x 2048) has 16.  All    *)
(* index arithmetic of the source is kept as written.                      *)
(*                                                                         *)
(* A pitch factor is the rational pf / PitchDen.  A sample value written   *)
(* by processGrain is kept as the list of its overlap-added terms: each    *)
(* term records the interpolation numerator (over PitchDen), the Hann      *)
(* coefficient it was multiplied with, and (history, not program state)    *)
(* the absolute output position the grain meant it for.                    *)
(***************************************************************************)
EXTENDS Integers, Sequences, FiniteSets, TLC

VARIABLES
  proc,        \* the PitchShifterProcessor instance (its fields + history fields)
  twin,        \* a second instance, driven in lock-step by TwinSpec only
  input,       \* inputs[0] of the last step, if a process call: its channels
  output,      \* outputs[0] after the last step, if a process call
  pitchFactor, \* parameters.pitchFactor[0] of that call (numerator)
  twinPitch,   \* the twin's pitch factor in the last process call
  lastOp,      \* what the last step was
  arg,         \* the value of the last command, or the last block size
  prev,        \* proc before the last step
  hist,        \* counters over the run (history, not program state)
  reverb,      \* the calls of generateImpulseResponse and what they returned
  mapping,     \* the last call of a parameter mapping of audio-utils.js
  worker,      \* the service worker: the stored settings and its timer
  audioProcessor, \* the audio processor of the offscreen document
  serviceWorker   \* the service worker's captures and its running handlers

vars ==
  << proc, twin, input, output, pitchFactor, twinPitch, lastOp, arg, prev, hist,
     reverb, mapping, worker, audioProcessor, serviceWorker >>

\* The state outside the pitch shifter.
hostVars == <<reverb, mapping, worker, audioProcessor, serviceWorker>>

\* The state of the pitch shifter and of its twin.
shifterVars ==
  <<proc, twin, input, output, pitchFactor, twinPitch, lastOp, arg, prev, hist>>

----------------------------------------------------------------------------
(* Program constants (in units of 256 samples) *)

DefaultGrainSize == 8
MinGrainSize == 2
MaxGrainSize == 16
InputCapacityFactor == 4
OutputCapacityFactor == 2
OverlapNum == 1
OverlapDen == 2
BypassEpsilonInv == 1000

(* Bounds of the model *)

PitchDen == 4          \* pitch factors are multiples of 1/PitchDen
MaxWork == 3           \* state-changing steps (pitch-shifting calls and grain
                       \* size changes) in one run
MaxResizes == 1        \* grain size changes in one run
SampleLevels == 3      \* sample values are -1 .. SampleLevels - 2

PitchMin == (PitchDen + 1) \div 2      \* 0.5, rounded up to the grid
PitchMax == 2 * PitchDen               \* 2.0
Unity == PitchDen                      \* 1.0

----------------------------------------------------------------------------
(* Helpers *)

Min(a, b) == IF a < b THEN a ELSE b
Abs(x) == IF x < 0 THEN -x ELSE x

\* A Float32Array of `size` zeros, indices 0 .. size-1.
ZeroSamples(size) == [i \in 0..(size - 1) |-> 0]

\* An accumulator slot holding 0.0: no overlap-added term.
ZeroAccumulator(size) == [i \in 0..(size - 1) |-> << >>]

\* Math.floor(grainSize * (1 - overlapFactor))
HopSizeOf(grainSize) == (grainSize * (OverlapDen - OverlapNum)) \div OverlapDen

\* createHannWindow: coefficient i of a window of `size` points stands for
\* 0.5 * (1 - cos(2 pi i / (size - 1))).
createHannWindow(size) == [i \in 0..(size - 1) |-> <<i, size>>]

----------------------------------------------------------------------------
(* constructor *)

NewProcessor ==
  [ grainSize |-> DefaultGrainSize,
    hopSize |-> HopSizeOf(DefaultGrainSize),
    bufferSize |-> DefaultGrainSize * InputCapacityFactor,
    inputBuffer |-> ZeroSamples(DefaultGrainSize * InputCapacityFactor),
    writeIndex |-> 0,
    readPosition |-> 0,
    outputBuffer |-> ZeroAccumulator(DefaultGrainSize * OutputCapacityFactor),
    outputReadIndex |-> 0,
    outputWriteIndex |-> 0,
    window |-> createHannWindow(DefaultGrainSize),
    grainCounter |-> 0,
    samplesUntilNextGrain |-> 0,
    bypass |-> TRUE,
    \* history (not fields of the class)
    inputTotal |-> 0,        \* samples written to inputBuffer so far
    outputReadTotal |-> 0,   \* samples drained from outputBuffer so far
    outputWriteTotal |-> 0,  \* sum of the hops outputWriteIndex advanced by
    usedInput |-> {},        \* inputBuffer indices of the last process call
    usedOutput |-> {},       \* outputBuffer indices of the last process call
    usedWindow |-> {},       \* window indices of the last process call
    drained |-> << >> ]      \* per drained sample of the last call: its position

\* The fields of the class, without the history fields.
Fields(p) ==
  << p.grainSize, p.hopSize, p.bufferSize, p.inputBuffer, p.writeIndex,
     p.readPosition, p.outputBuffer, p.outputReadIndex, p.outputWriteIndex,
     p.window, p.grainCounter, p.samplesUntilNextGrain, p.bypass >>

OutputCapacity(p) == Cardinality(DOMAIN p.outputBuffer)

----------------------------------------------------------------------------
(* handleMessage *)

\* (mutant) a grain size outside the range is clamped to it, not ignored.
handleMessage_clamped(p, command, value) ==
  CASE command = "setBypass" -> [p EXCEPT !.bypass = value]
    [] command = "setGrainSize" ->
         LET v == IF value < MinGrainSize THEN MinGrainSize
                  ELSE IF value > MaxGrainSize THEN MaxGrainSize ELSE value
         IN [p EXCEPT !.grainSize = v,
                      !.hopSize = (v * (OverlapDen - OverlapNum)) \div OverlapDen,
                      !.window = [i \in 0..(v - 1) |-> <<i, v>>]]
    [] OTHER -> p

handleMessage(p, command, value) ==
  CASE command = "setBypass" -> [p EXCEPT !.bypass = value]
    [] command = "setGrainSize" ->
         IF value >= MinGrainSize /\ value <= MaxGrainSize
         THEN [p EXCEPT !.grainSize = value,
                        !.hopSize = HopSizeOf(value),
                        !.window = createHannWindow(value)]
         ELSE p
    [] OTHER -> p

----------------------------------------------------------------------------
(* processGrain *)

\* Math.floor(this.readPosition) % this.bufferSize
grainStartIndex(p) == p.readPosition % p.bufferSize

\* sourcePos = i * pitchFactor; Math.floor(sourcePos); sourcePos - sourceIndex
sourceIndex(i, pf) == (i * pf) \div PitchDen
frac(i, pf) == (i * pf) % PitchDen

idx0(p, i, pf) == (grainStartIndex(p) + sourceIndex(i, pf)) % p.bufferSize
\* (mutant) the second interpolation index is not wrapped.
idx1_unwrapped(p, i, pf) == grainStartIndex(p) + sourceIndex(i, pf) + 1

idx1(p, i, pf) == (grainStartIndex(p) + sourceIndex(i, pf) + 1) % p.bufferSize
outputIdx(p, i) == (p.outputWriteIndex + i) % OutputCapacity(p)

\* interpolatedSample * window[i].  A typed array read outside its range is
\* undefined, and arithmetic on it is NaN.
windowedSample(p, i, pf) ==
  LET a == idx0(p, i, pf)
      b == idx1(p, i, pf)
      defined == /\ a \in DOMAIN p.inputBuffer
                 /\ b \in DOMAIN p.inputBuffer
                 /\ i \in DOMAIN p.window
  IN [ num |-> IF defined
               THEN p.inputBuffer[a] * PitchDen
                      + frac(i, pf) * (p.inputBuffer[b] - p.inputBuffer[a])
               ELSE 0,
       nan |-> ~defined,
       w |-> IF i \in DOMAIN p.window THEN p.window[i] ELSE << >>,
       pos |-> p.outputWriteTotal + i ]

\* The grain loop, from iteration i on: outputBuffer[outputIdx] += windowedSample.
\* A typed array write outside its range is dropped.
RECURSIVE grainLoop(_, _, _, _)
grainLoop(outputBuffer, p, i, pf) ==
  IF i < p.grainSize
  THEN LET o == outputIdx(p, i)
       IN grainLoop(
            IF o \in DOMAIN outputBuffer
            THEN [outputBuffer EXCEPT ![o] = Append(@, windowedSample(p, i, pf))]
            ELSE outputBuffer,
            p, i + 1, pf)
  ELSE outputBuffer

\* The indices one grain uses (history).
grainInputIndices(p, pf) ==
  UNION {{idx0(p, i, pf), idx1(p, i, pf)} : i \in 0..(p.grainSize - 1)}
grainOutputIndices(p) == {outputIdx(p, i) : i \in 0..(p.grainSize - 1)}
grainWindowIndices(p) == 0..(p.grainSize - 1)

\* (mutant) the read position advances by the hop scaled with the pitch.
processGrain_scaledHop(p, pf) ==
  [p EXCEPT
     !.outputBuffer = grainLoop(@, p, 0, pf),
     !.readPosition = @ + (p.hopSize * pf) \div PitchDen,
     !.outputWriteIndex = (@ + p.hopSize) % OutputCapacity(p),
     !.outputWriteTotal = @ + p.hopSize,
     !.usedInput = @ \cup grainInputIndices(p, pf),
     !.usedOutput = @ \cup grainOutputIndices(p),
     !.usedWindow = @ \cup grainWindowIndices(p)]

processGrain(p, pf) ==
  [p EXCEPT
     !.outputBuffer = grainLoop(@, p, 0, pf),
     !.readPosition = @ + p.hopSize,
     !.outputWriteIndex = (@ + p.hopSize) % OutputCapacity(p),
     !.outputWriteTotal = @ + p.hopSize,
     !.usedInput = @ \cup grainInputIndices(p, pf),
     !.usedOutput = @ \cup grainOutputIndices(p),
     !.usedWindow = @ \cup grainWindowIndices(p)]

----------------------------------------------------------------------------
(* process *)

\* this.bypass || Math.abs(pitchFactor - 1.0) < 0.001
isBypassed(p, pf) == p.bypass \/ BypassEpsilonInv * Abs(pf - Unity) < PitchDen

\* (mutant) only the first channel is copied.
passThrough_firstOnly(inp, outp, numChannels, blockSize) ==
  [c \in 1..Len(outp) |->
     IF c = 1
     THEN [i \in 1..Len(outp[c]) |->
             IF i <= blockSize THEN inp[c][i] ELSE outp[c][i]]
     ELSE outp[c]]

\* The bypass branch: every channel below numChannels is copied.
passThrough(inp, outp, numChannels, blockSize) ==
  [c \in 1..Len(outp) |->
     IF c <= numChannels
     THEN [i \in 1..Len(outp[c]) |->
             IF i <= blockSize THEN inp[c][i] ELSE outp[c][i]]
     ELSE outp[c]]

\* Write input samples to circular buffer.  Iteration i (from 1) stores sample
\* i at writeIndex, which the i - 1 increments modulo bufferSize before it have
\* moved to writeIndexAt(p, i).  Slot j is therefore first written in iteration
\* firstWrite(p, j), and again every bufferSize iterations; the last write wins.
writeIndexAt(p, i) == (p.writeIndex + i - 1) % p.bufferSize
firstWrite(p, j) == ((j + p.bufferSize - p.writeIndex) % p.bufferSize) + 1
lastWrite(p, j, blockSize) ==
  firstWrite(p, j) + p.bufferSize * ((blockSize - firstWrite(p, j)) \div p.bufferSize)

writeInput(p, inputChannel) ==
  LET blockSize == Len(inputChannel)
  IN [p EXCEPT
        !.inputBuffer = [j \in DOMAIN @ |->
                           IF firstWrite(p, j) > blockSize THEN @[j]
                           ELSE inputChannel[lastWrite(p, j, blockSize)]],
        !.writeIndex = (@ + blockSize) % p.bufferSize,
        !.usedInput = @ \cup {writeIndexAt(p, i) : i \in 1..blockSize},
        !.inputTotal = @ + blockSize]

\* (mutant) the grain loop runs while the counter is below zero.
RECURSIVE grainWhile_strict(_, _)
grainWhile_strict(p, pf) ==
  IF p.samplesUntilNextGrain < 0
  THEN LET q == processGrain(p, pf)
       IN grainWhile_strict([q EXCEPT !.samplesUntilNextGrain = @ + q.hopSize,
                                      !.grainCounter = @ + 1], pf)
  ELSE p

\* while (this.samplesUntilNextGrain <= 0) { processGrain; += hopSize; ++ }
RECURSIVE grainWhile(_, _)
grainWhile(p, pf) ==
  IF p.samplesUntilNextGrain <= 0
  THEN LET q == processGrain(p, pf)
       IN grainWhile([q EXCEPT !.samplesUntilNextGrain = @ + q.hopSize,
                               !.grainCounter = @ + 1], pf)
  ELSE p

\* (mutant) the slot read is not zeroed.
readOutput_notZeroed(p, outputChannel, blockSize) ==
  [ p |-> [p EXCEPT
             !.outputReadIndex = (@ + blockSize) % Cardinality(DOMAIN p.outputBuffer),
             !.usedOutput = @ \cup {(p.outputReadIndex + i - 1)
                                       % Cardinality(DOMAIN p.outputBuffer) :
                                     i \in 1..blockSize},
             !.outputReadTotal = @ + blockSize,
             !.drained = [i \in 1..blockSize |-> p.outputReadTotal + i - 1]],
    outputChannel |->
      [i \in DOMAIN outputChannel |->
         IF i > blockSize THEN outputChannel[i]
         ELSE p.outputBuffer[(p.outputReadIndex + i - 1)
                               % Cardinality(DOMAIN p.outputBuffer)]] ]

\* Read from output buffer.  Iteration i (from 1) emits the slot at
\* outputReadIndex, which the i - 1 increments modulo the capacity before it
\* have moved to outputReadIndexAt(p, i), and zeroes it.  From iteration
\* capacity + 1 on, the slot was zeroed one capacity earlier in the same call.
outputReadIndexAt(p, i) == (p.outputReadIndex + i - 1) % OutputCapacity(p)

readOutput(p, outputChannel, blockSize) ==
  LET reads == {outputReadIndexAt(p, i) : i \in 1..blockSize}
  IN [ p |-> [p EXCEPT
                !.outputBuffer = [j \in DOMAIN @ |->
                                    IF j \in reads THEN << >> ELSE @[j]],
                !.outputReadIndex = (@ + blockSize) % OutputCapacity(p),
                !.usedOutput = @ \cup reads,
                !.outputReadTotal = @ + blockSize,
                !.drained = [i \in 1..blockSize |-> p.outputReadTotal + i - 1]],
       outputChannel |->
         [i \in DOMAIN outputChannel |->
            IF i > blockSize THEN outputChannel[i]
            ELSE IF i > OutputCapacity(p) THEN << >>
            ELSE p.outputBuffer[outputReadIndexAt(p, i)]] ]

\* The history of the last call starts empty at every call.
startCall(p) ==
  [p EXCEPT !.usedInput = {}, !.usedOutput = {}, !.usedWindow = {},
            !.drained = << >>]

\* (mutant) the channels are mixed down before the input ring is written.
shift_mixdown(p, inp, outp, numChannels, blockSize, pf) ==
  LET mixed == [i \in 1..blockSize |->
                  inp[1][i] + (IF Len(inp) > 1 THEN inp[2][i] ELSE 0)]
      written == writeInput(p, mixed)
      grained == grainWhile(
                   [written EXCEPT !.samplesUntilNextGrain = @ - blockSize], pf)
      read == readOutput(grained, outp[1], blockSize)
  IN [ p |-> read.p,
       output |-> [c \in 1..Len(outp) |->
                     IF c = 1 \/ c <= numChannels
                     THEN read.outputChannel ELSE outp[c]] ]

\* The pitch-shifting branch: channel 0 is processed, the others copy it.
shift(p, inp, outp, numChannels, blockSize, pf) ==
  LET written == writeInput(p, inp[1])
      grained == grainWhile(
                   [written EXCEPT !.samplesUntilNextGrain = @ - blockSize], pf)
      read == readOutput(grained, outp[1], blockSize)
  IN [ p |-> read.p,
       output |-> [c \in 1..Len(outp) |->
                     IF c = 1 \/ c <= numChannels
                     THEN read.outputChannel ELSE outp[c]] ]

\* (mutant) the block is written to the input ring before the bypass test.
process_writesFirst(p, inp, outp, pf) ==
  LET q == startCall(p)
      numChannels == Min(Len(inp), Len(outp))
      blockSize == IF Len(inp) = 0 THEN 0 ELSE Len(inp[1])
  IN IF Len(inp) = 0 \/ blockSize = 0
     THEN [p |-> q, output |-> outp, branch |-> "empty"]
     ELSE IF isBypassed(q, pf)
     THEN [p |-> writeInput(q, inp[1]),
           output |-> passThrough(inp, outp, numChannels, blockSize),
           branch |-> "bypass"]
     ELSE LET s == shift(q, inp, outp, numChannels, blockSize, pf)
          IN [p |-> s.p, output |-> s.output, branch |-> "shift"]

\* (mutant) a block of no samples is not returned early.
process_noLengthTest(p, inp, outp, pf) ==
  LET q == startCall(p)
      numChannels == Min(Len(inp), Len(outp))
      blockSize == IF Len(inp) = 0 THEN 0 ELSE Len(inp[1])
  IN IF Len(inp) = 0
     THEN [p |-> q, output |-> outp, branch |-> "empty"]
     ELSE IF isBypassed(q, pf)
     THEN [p |-> q, output |-> passThrough(inp, outp, numChannels, blockSize),
           branch |-> IF blockSize = 0 THEN "empty" ELSE "bypass"]
     ELSE LET s == shift(q, inp, outp, numChannels, blockSize, pf)
          IN [p |-> s.p, output |-> s.output,
              branch |-> IF blockSize = 0 THEN "empty" ELSE "shift"]

\* process(inputs, outputs, parameters): inp is inputs[0], outp is outputs[0]
\* as the host hands it in (zero-filled), pf is parameters.pitchFactor[0].
process(p, inp, outp, pf) ==
  LET q == startCall(p)
      numChannels == Min(Len(inp), Len(outp))
      blockSize == IF Len(inp) = 0 THEN 0 ELSE Len(inp[1])
  IN IF Len(inp) = 0 \/ blockSize = 0
     THEN [p |-> q, output |-> outp, branch |-> "empty"]
     ELSE IF isBypassed(q, pf)
     THEN [p |-> q, output |-> passThrough(inp, outp, numChannels, blockSize),
           branch |-> "bypass"]
     ELSE LET s == shift(q, inp, outp, numChannels, blockSize, pf)
          IN [p |-> s.p, output |-> s.output, branch |-> "shift"]

----------------------------------------------------------------------------
(* generateImpulseResponse (src/src/lib/audio-utils.js)                    *)
(*                                                                         *)
(* Durations and decays are counted in tenths (TimeDen), sample values in  *)
(* units of 1 / Q: a store into a Float32Array rounds to that grid, the    *)
(* double arithmetic between two stores is exact.  The sample rate is      *)
(* scaled down: ReferenceRate stands for the 44100 Hz the delay tables are *)
(* written for, and the delay and reflection tables are scaled with it so  *)
(* that their order and the left/right swaps of the source are kept.       *)

TimeDen == 10
MinDuration == 30
MaxDuration == 60
MinDecay == 3
MaxDecay == 20
ReferenceRate == 4
Q == 1000
NormalizePeak == 900
RoomSizePct == 85
DampingTenths == 4
LpCoeffTenths == 2
EnvelopeRatePct == 70
StereoOffset == 1

Max(a, b) == IF a > b THEN a ELSE b

\* Math.max(lo, Math.min(hi, x))
Clamp(x, lo, hi) == Max(lo, Min(hi, x))

\* n / d rounded to the nearest integer (d > 0): a Float32Array store.
Round(n, d) == (2 * n + d) \div (2 * d)

combDelaysLAtReference == <<10, 11, 9, 8, 6, 7, 5, 4>>
combDelaysRAtReference == <<11, 10, 8, 9, 7, 6, 4, 5>>
allpassDelaysAtReference == <<4, 3, 2, 1>>

\* [...].map(d => Math.floor(d * sampleRate / 44100))
scaleDelays(table, sampleRate) ==
  [c \in 1..Len(table) |-> (table[c] * sampleRate) \div ReferenceRate]

combDelaysL(sampleRate) == scaleDelays(combDelaysLAtReference, sampleRate)
combDelaysR(sampleRate) == scaleDelays(combDelaysRAtReference, sampleRate)
allpassDelays(sampleRate) == scaleDelays(allpassDelaysAtReference, sampleRate)

\* { timeMs, gainL, gainR }: times in 1 / ReferenceRate s, gains in 1 / Q.
earlyReflections ==
  << [timeMs |-> 1,  gainL |-> 900, gainR |-> 850],
     [timeMs |-> 2,  gainL |-> 800, gainR |-> 820],
     [timeMs |-> 3,  gainL |-> 700, gainR |-> 720],
     [timeMs |-> 4,  gainL |-> 600, gainR |-> 580],
     [timeMs |-> 6,  gainL |-> 500, gainR |-> 520],
     [timeMs |-> 8,  gainL |-> 400, gainR |-> 380],
     [timeMs |-> 10, gainL |-> 300, gainR |-> 320],
     [timeMs |-> 12, gainL |-> 200, gainR |-> 220] >>

\* The delay lines, indices and filter states of one channel, as the call
\* creates them: combBuffers, combIndices, filterStore, allpassBuffers.
NewLines(combDelays, apDelays) ==
  [ combDelays |-> combDelays,
    combBuffers |-> [c \in 1..Len(combDelays) |-> ZeroSamples(combDelays[c])],
    combIndices |-> [c \in 1..Len(combDelays) |-> 0],
    filterStore |-> [c \in 1..Len(combDelays) |-> 0],
    allpassDelays |-> apDelays,
    allpassBuffers |-> [a \in 1..Len(apDelays) |-> ZeroSamples(apDelays[a])] ]

NewWorkspace(sampleRate) ==
  [ L |-> NewLines(combDelaysL(sampleRate), allpassDelays(sampleRate)),
    R |-> NewLines(combDelaysR(sampleRate), allpassDelays(sampleRate)) ]

RECURSIVE reflectionSum(_, _, _, _, _)
reflectionSum(k, i, sampleRate, offset, right) ==
  IF k > Len(earlyReflections) THEN 0
  ELSE LET er == earlyReflections[k]
           sampleIdx == ((er.timeMs + offset) * sampleRate) \div ReferenceRate
       IN (IF sampleIdx = i THEN (IF right THEN er.gainR ELSE er.gainL) ELSE 0)
          + reflectionSum(k + 1, i, sampleRate, offset, right)

\* impulseL / impulseR: the unit impulse plus the early reflections that
\* fall inside the buffer.
impulse(length, sampleRate, right) ==
  [i \in 0..(length - 1) |->
     (IF i = 0 THEN Q ELSE 0)
     + reflectionSum(1, i, sampleRate, IF right THEN StereoOffset ELSE 0, right)]

\* Comb filter c of one channel takes input sample x: the body of the loop
\* over c.  `st` carries the lines, the running sum and c.
combFilter(st, x) ==
  LET c == st.c
      lines == st.lines
      idx == lines.combIndices[c]
      out == lines.combBuffers[c][idx]
      store == Round(out * (10 - DampingTenths)
                     + lines.filterStore[c] * DampingTenths, 10)
  IN [ lines |-> [lines EXCEPT
                    !.filterStore[c] = store,
                    !.combBuffers[c][idx] =
                       Round(x * 100 + store * RoomSizePct, 100),
                    !.combIndices[c] = (idx + 1) % lines.combDelays[c]],
       sum |-> st.sum + out,
       c |-> c + 1 ]

\* for (let c = 0; c < combDelaysL.length; c++)
RECURSIVE combFilters(_, _)
combFilters(st, x) ==
  IF st.c > Len(st.lines.combDelays) THEN st
  ELSE combFilters(combFilter(st, x), x)

\* for (let i = 0; i < length; i++): all comb filters in parallel, averaged.
RECURSIVE combLoop(_, _)
combLoop(st, imp) ==
  IF st.i >= Cardinality(DOMAIN imp) THEN st
  ELSE LET r == combFilters([lines |-> st.lines, sum |-> 0, c |-> 1], imp[st.i])
       IN combLoop([ lines |-> r.lines,
                     out |-> [st.out EXCEPT
                                ![st.i] = Round(r.sum, Len(r.lines.combDelays))],
                     i |-> st.i + 1 ], imp)

\* Allpass filter a over the whole signal `current`.
RECURSIVE allpassLoop(_, _, _)
allpassLoop(st, a, current) ==
  IF st.i >= Cardinality(DOMAIN current) THEN st
  ELSE LET buffered == st.lines.allpassBuffers[a][st.idx]
           inp == current[st.i]
       IN allpassLoop(
            [ lines |-> [st.lines EXCEPT
                           !.allpassBuffers[a][st.idx] =
                              Round(2 * inp + buffered, 2)],
              out |-> [st.out EXCEPT ![st.i] = Round(2 * buffered - inp, 2)],
              i |-> st.i + 1,
              idx |-> (st.idx + 1) % st.lines.allpassDelays[a] ],
            a, current)

\* for (let a = 0; a < allpassDelays.length; a++): the filters in series.
RECURSIVE allpassChain(_)
allpassChain(st) ==
  IF st.a > Len(st.lines.allpassDelays) THEN st
  ELSE LET r == allpassLoop([ lines |-> st.lines,
                              out |-> ZeroSamples(Cardinality(DOMAIN st.out)),
                              i |-> 0, idx |-> 0 ], st.a, st.out)
       IN allpassChain([lines |-> r.lines, out |-> r.out, a |-> st.a + 1])

\* Math.exp(-clampedDecay * 0.7 * t), t = i / sampleRate, in units of 1 / Q:
\* exp(-x) is taken as 1 / (1 + x + x^2 / 2), which like exp(-x) is 1 at 0,
\* falls with x and stays above 0 (x in thousandths).
envelope(clampedDecay, i, sampleRate) ==
  LET x == (clampedDecay * EnvelopeRatePct * i * 1000)
             \div (TimeDen * 100 * sampleRate)
  IN (Q * 2000000) \div (2000000 + 2000 * x + x * x)

applyEnvelope(channel, clampedDecay, sampleRate) ==
  [i \in DOMAIN channel |->
     Round(channel[i] * envelope(clampedDecay, i, sampleRate), Q)]

\* The final one-pole lowpass:
\* channel[i] = prev = prev + lpCoeff * (channel[i] - prev)
RECURSIVE lowpass(_)
lowpass(st) ==
  IF st.i >= Cardinality(DOMAIN st.channel) THEN st.channel
  ELSE LET y == Round(st.prevSample * 10
                      + LpCoeffTenths * (st.channel[st.i] - st.prevSample), 10)
       IN lowpass([ channel |-> [st.channel EXCEPT ![st.i] = y],
                    i |-> st.i + 1, prevSample |-> y ])

\* maxVal: the largest |sample| of the two channels, 0 for empty channels.
maxAbs(left, right) ==
  LET S == {0} \cup {Abs(left[i]) : i \in DOMAIN left}
               \cup {Abs(right[i]) : i \in DOMAIN right}
  IN CHOOSE m \in S : \A v \in S : v <= m

\* (mutant) the samples are clipped to the peak instead of scaled.
normalize_clipped(channel, maxVal) ==
  [i \in DOMAIN channel |->
     Max(-NormalizePeak, Min(NormalizePeak, channel[i]))]

\* if (maxVal > 0) every sample is multiplied by 0.9 / maxVal
normalize(channel, maxVal) ==
  IF maxVal > 0
  THEN [i \in DOMAIN channel |-> Round(channel[i] * NormalizePeak, maxVal)]
  ELSE channel

\* One channel up to the final lowpass, on the given delay lines.
renderChannel(lines, length, sampleRate, clampedDecay, right) ==
  LET comb == combLoop([lines |-> lines, out |-> ZeroSamples(length), i |-> 0],
                       impulse(length, sampleRate, right))
      diffused == allpassChain([lines |-> comb.lines, out |-> comb.out, a |-> 1])
  IN [ lines |-> diffused.lines,
       out |-> lowpass([ channel |-> applyEnvelope(diffused.out, clampedDecay,
                                                   sampleRate),
                         i |-> 0, prevSample |-> 0 ]) ]

\* (mutant) the duration is not clamped before the length is computed.
render_unclamped(work, sampleRate, duration, decay) ==
  LET clampedDecay == Clamp(decay, MinDecay, MaxDecay)
      length == (duration * sampleRate) \div TimeDen
      left == renderChannel(work.L, length, sampleRate, clampedDecay, FALSE)
      right == renderChannel(work.R, length, sampleRate, clampedDecay, TRUE)
      maxVal == maxAbs(left.out, right.out)
  IN [ buffer |-> [ numberOfChannels |-> 2,
                    length |-> length,
                    sampleRate |-> sampleRate,
                    channels |-> << normalize(left.out, maxVal),
                                    normalize(right.out, maxVal) >> ],
       work |-> [L |-> left.lines, R |-> right.lines],
       maxVal |-> maxVal ]

\* generateImpulseResponse(context, duration, decay) run on the workspace
\* `work`: the returned AudioBuffer, the workspace as the call leaves it and
\* (history) the peak found before the normalisation.
render(work, sampleRate, duration, decay) ==
  LET reverbDuration == Clamp(duration, MinDuration, MaxDuration)
      clampedDecay == Clamp(decay, MinDecay, MaxDecay)
      length == (reverbDuration * sampleRate) \div TimeDen
      left == renderChannel(work.L, length, sampleRate, clampedDecay, FALSE)
      right == renderChannel(work.R, length, sampleRate, clampedDecay, TRUE)
      maxVal == maxAbs(left.out, right.out)
  IN [ buffer |-> [ numberOfChannels |-> 2,
                    length |-> length,
                    sampleRate |-> sampleRate,
                    channels |-> << normalize(left.out, maxVal),
                                    normalize(right.out, maxVal) >> ],
       work |-> [L |-> left.lines, R |-> right.lines],
       maxVal |-> maxVal ]

\* No call of generateImpulseResponse yet.
NoReverb ==
  [ calls |-> 0, args |-> << >>, buffer |-> << >>, work |-> << >>,
    maxVal |-> 0, log |-> << >> ]

\* (mutant) the delay lines are created once and kept between the calls.
generateImpulseResponse_sharedLines(sampleRate, duration, decay) ==
  render(IF reverb.calls > 0 /\ reverb.args[1] = sampleRate
         THEN reverb.work ELSE NewWorkspace(sampleRate),
         sampleRate, duration, decay)

generateImpulseResponse(sampleRate, duration, decay) ==
  render(NewWorkspace(sampleRate), sampleRate, duration, decay)

----------------------------------------------------------------------------
(* The parameter mappings (src/src/lib/audio-utils.js)                     *)
(*                                                                         *)
(* Speeds are counted in hundredths (SpeedDen), reverb amounts in whole    *)
(* percents; a gain or factor is the exact fraction num / den.             *)

SpeedDen == 100
SpeedMin == 50
SpeedMax == 150
ReverbMin == 0
ReverbMax == 100
PercentFull == 100
WetGainTenths == 14
DryDivisor == 400

\* (mutant) only the lower end of the range is enforced.
calculatePlaybackRate_noUpper(speed) == Max(SpeedMin, speed)

\* calculatePlaybackRate(speed)
calculatePlaybackRate(speed) ==
  LET clampedSpeed == Max(SpeedMin, Min(SpeedMax, speed))
  IN clampedSpeed

\* (mutant) wet and dry are a plain crossfade.
calculateWetDryMix_crossfade(reverbPercent) ==
  LET clampedPercent == Max(ReverbMin, Min(ReverbMax, reverbPercent))
  IN [ wetGain |-> [num |-> clampedPercent * WetGainTenths,
                    den |-> PercentFull * 10],
       dryGain |-> [num |-> PercentFull - clampedPercent, den |-> PercentFull] ]

\* calculateWetDryMix(reverbPercent):
\* wetGain = (clampedPercent / 100) * 1.4, dryGain = 1 - clampedPercent / 400
calculateWetDryMix(reverbPercent) ==
  LET clampedPercent == Max(ReverbMin, Min(ReverbMax, reverbPercent))
  IN [ wetGain |-> [num |-> clampedPercent * WetGainTenths,
                    den |-> PercentFull * 10],
       dryGain |-> [num |-> DryDivisor - clampedPercent, den |-> DryDivisor] ]

\* The copy of calculateWetDryMix inlined in the Firefox content script.
calculateWetDryMixBundled(reverbPercent) ==
  LET clamped == Max(ReverbMin, Min(ReverbMax, reverbPercent))
  IN [ wetGain |-> [num |-> clamped * WetGainTenths, den |-> PercentFull * 10],
       dryGain |-> [num |-> DryDivisor - clamped, den |-> DryDivisor] ]

\* (mutant) the speed is not clamped before it is inverted.
calculatePitchFactor_unclamped(speed, pitchCorrectionEnabled) ==
  IF ~pitchCorrectionEnabled THEN [num |-> 1, den |-> 1]
  ELSE [num |-> SpeedDen, den |-> speed]

\* calculatePitchFactor(speed, pitchCorrectionEnabled): 1.0 or 1 / clampedSpeed
calculatePitchFactor(speed, pitchCorrectionEnabled) ==
  IF ~pitchCorrectionEnabled THEN [num |-> 1, den |-> 1]
  ELSE LET clampedSpeed == Max(SpeedMin, Min(SpeedMax, speed))
       IN [num |-> SpeedDen, den |-> clampedSpeed]

----------------------------------------------------------------------------
(* The settings module (src/unnamed/part_000 and part_001)                 *)
(*                                                                         *)
(* A JavaScript value is a record [type, v]: a number n (speeds in         *)
(* hundredths) is ["number", n], NaN is ["nan", 0], true / false are       *)
(* ["boolean", 1 / 0], null is ["null", 0] and a string is ["string", id]. *)
(* An object is a function from the keys it defines to their values; a     *)
(* key that is undefined is not in its domain.                             *)

Num(n) == [type |-> "number", v |-> n]
NaN == [type |-> "nan", v |-> 0]
Bool(b) == [type |-> "boolean", v |-> IF b THEN 1 ELSE 0]
Null == [type |-> "null", v |-> 0]
Str(id) == [type |-> "string", v |-> id]

\* Number(x) for a value counted in 1 / unit; no string of the model is
\* numeric.
Number(x, unit) ==
  CASE x.type = "number" -> x
    [] x.type = "boolean" -> Num(x.v * unit)
    [] x.type = "null" -> Num(0)
    [] OTHER -> NaN

\* Boolean(x)
Boolean(x) ==
  CASE x.type \in {"number", "boolean"} -> Bool(x.v # 0)
    [] x.type = "string" -> Bool(TRUE)
    [] OTHER -> Bool(FALSE)

\* { ...a, ...b }
Spread(a, b) ==
  [k \in DOMAIN a \cup DOMAIN b |-> IF k \in DOMAIN b THEN b[k] ELSE a[k]]

\* The object with the keys of `keys` taken from obj.
Pick(obj, keys) == [k \in keys |-> obj[k]]

BassBoostMin == 0
BassBoostMax == 100

\* DEFAULT_SETTINGS (constants.js)
DEFAULT_SETTINGS ==
  [ speed |-> Num(SpeedDen), reverb |-> Num(0), bassBoost |-> Num(0),
    pitchCorrection |-> Bool(FALSE), enabled |-> Bool(FALSE) ]

\* The unit, minimum and maximum of a numeric setting (CONSTRAINTS).
Unit(key) == IF key = "speed" THEN SpeedDen ELSE 1
Lowest(key) ==
  CASE key = "speed" -> SpeedMin
    [] key = "reverb" -> ReverbMin
    [] key = "bassBoost" -> BassBoostMin
Highest(key) ==
  CASE key = "speed" -> SpeedMax
    [] key = "reverb" -> ReverbMax
    [] key = "bassBoost" -> BassBoostMax

NumericKeys == {"speed", "reverb", "bassBoost"}

\* if (settings.key !== undefined) { const x = Number(settings.key);
\*   if (!Number.isNaN(x)) validated.key = Math.max(min, Math.min(max, x)) }
validatedKeys(settings) ==
  {k \in NumericKeys \cap DOMAIN settings :
     Number(settings[k], Unit(k)).type # "nan"}
    \cup ({"enabled"} \cap DOMAIN settings)

validatedValue(settings, k) ==
  CASE k \in NumericKeys ->
         Num(Max(Lowest(k), Min(Highest(k), Number(settings[k], Unit(k)).v)))
    [] k = "enabled" -> Boolean(settings[k])
    [] k = "activePreset" -> settings[k]
    [] k = "preservePitch" -> Boolean(settings[k])

\* (mutant) a NaN value is stored as it is.
validateSettings_keepsNaN(settings) ==
  [k \in (DOMAIN settings \cap {"speed", "reverb", "bassBoost", "enabled"}) |->
     IF k # "enabled" /\ Number(settings[k], Unit(k)).type = "nan" THEN NaN
     ELSE validatedValue(settings, k)]

validateSettings(settings) ==
  [k \in validatedKeys(settings) |-> validatedValue(settings, k)]

\* validateSettings of part_000: also activePreset and preservePitch.
validateSettingsPresets(settings) ==
  [k \in validatedKeys(settings)
         \cup ({"activePreset", "preservePitch"} \cap DOMAIN settings) |->
     validatedValue(settings, k)]

\* The revision of the settings module in use: 0 for part_000, 1 for part_001.
validate(revision, settings) ==
  IF revision = 0 THEN validateSettingsPresets(settings)
  ELSE validateSettings(settings)

\* mergeWithDefaults(partialSettings)
mergeWithDefaults(revision, partialSettings) ==
  Spread(DEFAULT_SETTINGS, validate(revision, partialSettings))

\* chrome.storage.sync under STORAGE_KEY: << >> when nothing is stored,
\* <<object>> otherwise.  saveSettings(settings) stores:
saveSettings(revision, settings) == << mergeWithDefaults(revision, settings) >>

\* loadSettings()
loadSettings(revision, storage) ==
  IF storage = << >> THEN DEFAULT_SETTINGS
  ELSE mergeWithDefaults(revision, storage[1])

\* resetSettings() stores:
resetSettings == << DEFAULT_SETTINGS >>

----------------------------------------------------------------------------
(* The host: what it feeds the processor with *)

\* One channel of `len` samples of input signal number `seed`.
Channel(seed, len) ==
  [i \in 1..len |-> ((i * (seed + 1) + seed) % SampleLevels) - 1]

\* inputs[0]: channel c carries signal number c - 1 + seed.
Inputs(nIn, len, seed) == [c \in 1..nIn |-> Channel(c - 1 + seed, len)]

\* outputs[0] as handed to process: zero-filled.
Outputs(nOut, len) == [c \in 1..nOut |-> [i \in 1..len |-> 0]]

\* Channel counts <<inputs[0].length, outputs[0].length>> of the node.
MonoLayout == <<1, 1>>
Layouts == {<<1, 1>>, <<2, 2>>, <<1, 2>>, <<2, 1>>}

\* Block sizes tried, up to 4 x grain size.
BlockSizes(p) == {1, p.grainSize, InputCapacityFactor * p.grainSize}

\* Pitch factors of the AudioParam range [0.5, 2.0] tried.
ShiftPitches == {PitchMin, PitchMax}
BypassPitches == {Unity, PitchMax}

\* Values sent with setGrainSize.
GrainValues ==
  { MinGrainSize - 1, MinGrainSize, DefaultGrainSize - 3, DefaultGrainSize,
    MaxGrainSize, MaxGrainSize + 1 }

----------------------------------------------------------------------------
(* Specification *)

\* The pitch shifter (and its twin) after construction.
InitShifter(layouts, second) ==
  /\ proc = NewProcessor
  /\ twin = second
  /\ input = << >>
  /\ output = << >>
  /\ pitchFactor = Unity
  /\ twinPitch = Unity
  /\ lastOp = "init"
  /\ arg = 0
  /\ prev = NewProcessor
  /\ \E layout \in layouts :
       hist = [work |-> 0, resizes |-> 0, overflowed |-> FALSE,
               layout |-> layout]

InitWith(layouts, second) ==
  /\ InitShifter(layouts, second)
  /\ reverb = NoReverb
  /\ mapping = << >>
  /\ worker = << >>
  /\ audioProcessor = << >>
  /\ serviceWorker = << >>

\* The node as the extension would create it: one channel in, one out.
Init == InitWith({MonoLayout}, << >>)

\* One process call of the main instance, taking the given branch.
Call(inp, outp, pf, branch) ==
  LET r == process(proc, inp, outp, pf)
      len == IF Len(inp) = 0 THEN 0 ELSE Len(inp[1])
  IN /\ r.branch = branch
     /\ proc' = r.p
     /\ input' = inp
     /\ output' = r.output
     /\ pitchFactor' = pf
     /\ lastOp' = branch
     /\ arg' = len
     /\ prev' = proc
     /\ hist' = IF branch = "shift"
                THEN [hist EXCEPT
                        !.work = @ + 1,
                        !.overflowed =
                           @ \/ len + proc.grainSize > OutputCapacity(proc)]
                ELSE hist
     /\ UNCHANGED hostVars

\* One message to the main instance.
Message(command, value) ==
  LET q == handleMessage(proc, command, value)
      resized == q.grainSize # proc.grainSize
  IN /\ resized => hist.work < MaxWork /\ hist.resizes < MaxResizes
     /\ proc' = q
     /\ lastOp' = command
     /\ arg' = value
     /\ prev' = proc
     /\ hist' = IF resized
                THEN [hist EXCEPT !.work = @ + 1, !.resizes = @ + 1] ELSE hist
     /\ input' = << >>
     /\ output' = << >>
     /\ pitchFactor' = Unity
     /\ UNCHANGED hostVars

ProcessShift ==
  /\ hist.work < MaxWork
  /\ \E len \in BlockSizes(proc), pf \in ShiftPitches :
       /\ ~isBypassed(proc, pf)
       /\ Call(Inputs(hist.layout[1], len, hist.work),
               Outputs(hist.layout[2], len), pf, "shift")
  /\ UNCHANGED <<twin, twinPitch>>

ProcessBypass ==
  /\ \E len \in BlockSizes(proc), pf \in BypassPitches :
       /\ isBypassed(proc, pf)
       /\ Call(Inputs(hist.layout[1], len, hist.work),
               Outputs(hist.layout[2], len), pf, "bypass")
  /\ UNCHANGED <<twin, twinPitch>>

\* No input channel connected, or a block of no samples.
ProcessEmpty ==
  /\ \E nIn \in {0, hist.layout[1]} :
       Call(Inputs(nIn, 0, 0), Outputs(hist.layout[2], IF nIn = 0 THEN 1 ELSE 0),
            PitchMax, "empty")
  /\ UNCHANGED <<twin, twinPitch>>

SetBypass ==
  /\ \E value \in BOOLEAN : Message("setBypass", value)
  /\ UNCHANGED <<twin, twinPitch>>

SetGrainSize ==
  /\ \E value \in GrainValues : Message("setGrainSize", value)
  /\ UNCHANGED <<twin, twinPitch>>

Clear ==
  /\ Message("clear", 0)
  /\ UNCHANGED <<twin, twinPitch>>

Next ==
  \/ ProcessShift
  \/ ProcessBypass
  \/ ProcessEmpty
  \/ SetBypass
  \/ SetGrainSize
  \/ Clear

Spec == Init /\ [][Next]_vars

\* The same program on every channel layout.
InitChannels == InitWith(Layouts, << >>)
ChannelSpec == InitChannels /\ [][Next]_vars

\* Two instances fed the same blocks and the same commands, with different
\* pitch factors wherever a block is pitch-shifted.
TwinInit == InitWith({MonoLayout}, NewProcessor)

TwinPitches == {PitchMin, Unity + 1, PitchMax}

TwinShift ==
  /\ hist.work < MaxWork
  /\ \E len \in BlockSizes(proc), pf \in ShiftPitches, tpf \in TwinPitches :
       LET inp == Inputs(hist.layout[1], len, hist.work)
           outp == Outputs(hist.layout[2], len)
       IN /\ pf # tpf
          /\ ~isBypassed(proc, pf)
          /\ ~isBypassed(twin, tpf)
          /\ Call(inp, outp, pf, "shift")
          /\ twin' = process(twin, inp, outp, tpf).p
          /\ twinPitch' = tpf

TwinBypass ==
  /\ proc.bypass
  /\ \E len \in BlockSizes(proc), pf \in ShiftPitches, tpf \in TwinPitches :
       LET inp == Inputs(hist.layout[1], len, hist.work)
           outp == Outputs(hist.layout[2], len)
       IN /\ pf # tpf
          /\ Call(inp, outp, pf, "bypass")
          /\ twin' = process(twin, inp, outp, tpf).p
          /\ twinPitch' = tpf

TwinSetBypass ==
  \E value \in BOOLEAN :
    /\ Message("setBypass", value)
    /\ twin' = handleMessage(twin, "setBypass", value)
    /\ twinPitch' = Unity

TwinSetGrainSize ==
  \E value \in GrainValues :
    /\ Message("setGrainSize", value)
    /\ twin' = handleMessage(twin, "setGrainSize", value)
    /\ twinPitch' = Unity

TwinNext ==
  \/ TwinShift
  \/ TwinBypass
  \/ TwinSetBypass
  \/ TwinSetGrainSize

TwinSpec == TwinInit /\ [][TwinNext]_vars

----------------------------------------------------------------------------
(* The reverb: calls of generateImpulseResponse *)

MaxCalls == 3

\* context.sampleRate, duration and decay of the calls tried.
SampleRates == {ReferenceRate, ReferenceRate + 1}
Durations == {MinDuration - 10, (MinDuration + MaxDuration) \div 2, MaxDuration + 10}
Decays == {(MinDecay + MaxDecay) \div 2, MaxDecay + 5}

GenerateImpulseResponse ==
  /\ reverb.calls < MaxCalls
  /\ \E sampleRate \in SampleRates, duration \in Durations, decay \in Decays :
       LET r == generateImpulseResponse(sampleRate, duration, decay)
       IN reverb' =
            [ calls |-> reverb.calls + 1,
              args |-> <<sampleRate, duration, decay>>,
              buffer |-> r.buffer,
              work |-> r.work,
              maxVal |-> r.maxVal,
              log |-> IF reverb.calls = 0 THEN << >>
                      ELSE Append(reverb.log,
                                  [args |-> reverb.args, buffer |-> reverb.buffer]) ]
  /\ UNCHANGED <<shifterVars, mapping, worker, audioProcessor, serviceWorker>>

ReverbNext == GenerateImpulseResponse

ReverbSpec == Init /\ [][ReverbNext]_vars

----------------------------------------------------------------------------
(* The parameter mappings: calls with speeds and reverb amounts *)

\* Speeds from 0 to 2.0 and reverb amounts from -20 to 120.
Speeds ==
  {speed \in 0..(2 * SpeedDen) : speed % 5 = 0}
    \cup {SpeedMin - 1, SpeedMin + 1, SpeedMax - 1, SpeedMax + 1, 72}
ReverbPercents == (ReverbMin - 20)..(ReverbMax + 20)

Mapped(op, value, enabled, out, again) ==
  /\ mapping' = [ op |-> op, value |-> value, enabled |-> enabled,
                  out |-> out, again |-> again ]
  /\ UNCHANGED <<shifterVars, reverb, worker, audioProcessor, serviceWorker>>

\* A speed is mapped, and the result is mapped again.
CalculatePlaybackRate ==
  \E speed \in Speeds :
    LET rate == calculatePlaybackRate(speed)
    IN Mapped("calculatePlaybackRate", speed, FALSE, rate,
              calculatePlaybackRate(rate))

CalculateWetDryMix ==
  \E reverbPercent \in ReverbPercents :
    Mapped("calculateWetDryMix", reverbPercent, FALSE,
           calculateWetDryMix(reverbPercent), << >>)

CalculateWetDryMixBundled ==
  \E reverbPercent \in ReverbPercents :
    Mapped("calculateWetDryMix", reverbPercent, TRUE,
           calculateWetDryMixBundled(reverbPercent), << >>)

\* A pitch factor is computed; `again` is the playback rate of the same speed.
CalculatePitchFactor ==
  \E speed \in Speeds, pitchCorrectionEnabled \in BOOLEAN :
    Mapped("calculatePitchFactor", speed, pitchCorrectionEnabled,
           calculatePitchFactor(speed, pitchCorrectionEnabled),
           calculatePlaybackRate(speed))

MappingNext ==
  \/ CalculatePlaybackRate
  \/ CalculateWetDryMix
  \/ CalculateWetDryMixBundled
  \/ CalculatePitchFactor

MappingSpec == Init /\ [][MappingNext]_vars

\* The last step was a call of the mapping `op`.
MappingCalled(op) == mapping # << >> /\ mapping.op = op

\* clamp(x, lo, hi) as the claims use it.
Clamped(x, lo, hi) == IF x < lo THEN lo ELSE IF x > hi THEN hi ELSE x

----------------------------------------------------------------------------
(* The settings module and the service worker's settings handlers *)

MaxMessages == 3

Undefined == [type |-> "undefined", v |-> 0]

\* The object literal with the values of f, undefined ones left out.
Object(f) == Pick(f, {k \in DOMAIN f : f[k] # Undefined})

\* The service worker after start-up: nothing stored, no timer, no pending
\* settings.  lastOp, arg, result, saved, messages, sinceReset and latest are
\* history; latest holds, while nothing but UPDATE_SETTINGS messages have been
\* handled, the most recent value each payload field was given.
NewWorker(revision) ==
  [ revision |-> revision,
    storage |-> << >>,
    pendingSettings |-> << >>,
    saveDebounceTimer |-> FALSE,
    lastOp |-> "init",
    arg |-> << >>,
    result |-> << >>,
    saved |-> << >>,
    messages |-> 0,
    sinceReset |-> FALSE,
    latest |-> << << >> >> ]

Revisions == {0, 1}

SettingsInit ==
  /\ InitShifter({MonoLayout}, << >>)
  /\ reverb = NoReverb
  /\ mapping = << >>
  /\ audioProcessor = << >>
  /\ serviceWorker = << >>
  /\ \E revision \in Revisions : worker = NewWorker(revision)

\* Raw settings handed to validateSettings.
ValidateInputs ==
  { Object(f) : f \in
      [ speed : {Undefined, Num(10), Num(80), Num(200), NaN, Str(1)},
        reverb : {Undefined, Num(-10), Num(50), Num(150), NaN},
        bassBoost : {Undefined, Num(-5), Num(75), Null},
        enabled : {Undefined, Num(1), Num(0), Bool(TRUE), Null},
        pitchCorrection : {Undefined, Bool(TRUE)},
        activePreset : {Undefined, Str(1)} ] }

\* Complete settings objects with every value inside its constraints.
CompleteSettings ==
  [ speed : {Num(SpeedMin), Num(80), Num(SpeedMax)},
    reverb : {Num(ReverbMin), Num(ReverbMax)},
    bassBoost : {Num(BassBoostMin), Num(30)},
    pitchCorrection : {Bool(FALSE), Bool(TRUE)},
    enabled : {Bool(FALSE), Bool(TRUE)} ]

\* Payloads of UPDATE_SETTINGS messages.
UpdatePayloads ==
  { [speed |-> Num(80)], [reverb |-> Num(50)], [pitchCorrection |-> Bool(TRUE)],
    [speed |-> Num(200), bassBoost |-> Num(30)] }

\* Settings the popup sends along with TOGGLE_EXTENSION.
UiSettings ==
  [ speed |-> Num(120), reverb |-> Num(50), bassBoost |-> Num(30),
    pitchCorrection |-> Bool(TRUE), enabled |-> Bool(TRUE) ]

\* A step of the worker: the fields it changes, and the history fields.
Worked(next, op, value, result, counted) ==
  /\ worker' = [next EXCEPT !.lastOp = op, !.arg = value, !.result = result,
                            !.messages = @ + (IF counted THEN 1 ELSE 0)]
  /\ UNCHANGED <<shifterVars, reverb, mapping, audioProcessor, serviceWorker>>

\* validateSettings(settings) on a fresh worker.
ValidateSettings ==
  /\ worker.lastOp = "init"
  /\ \E settings \in ValidateInputs :
       Worked(worker, "validateSettings", settings,
              validate(worker.revision, settings), FALSE)

\* saveSettings(settings) called with a complete settings object.
SaveSettings ==
  /\ worker.messages < MaxMessages
  /\ \E settings \in CompleteSettings :
       Worked([worker EXCEPT !.storage = saveSettings(worker.revision, settings),
                             !.saved = <<settings>>,
                             !.sinceReset = FALSE,
                             !.latest = << >>],
              "saveSettings", settings, << >>, TRUE)

\* loadSettings()
LoadSettings ==
  /\ worker.lastOp # "loadSettings"
  /\ Worked(worker, "loadSettings", worker.arg,
            loadSettings(worker.revision, worker.storage), FALSE)

\* handleUpdateSettings(payload): the new settings become pending and the
\* debounce timer is started again.
UpdateSettings ==
  /\ worker.messages < MaxMessages
  /\ \E payload \in UpdatePayloads :
       LET currentSettings == loadSettings(worker.revision, worker.storage)
           newSettings == Spread(currentSettings, payload)
       IN Worked([worker EXCEPT !.pendingSettings = <<newSettings>>,
                                !.saveDebounceTimer = TRUE,
                                !.saved = << >>,
                                !.sinceReset = FALSE,
                                !.latest = IF @ = << >> THEN @
                                           ELSE <<Spread(@[1], payload)>>],
                 "UPDATE_SETTINGS", payload, newSettings, TRUE)

\* The callback of the debounce timer, SAVE_DEBOUNCE_MS after the last update.
DebounceFires ==
  /\ worker.saveDebounceTimer
  /\ Worked([worker EXCEPT
               !.storage = IF worker.pendingSettings = << >> THEN @
                           ELSE saveSettings(worker.revision,
                                             worker.pendingSettings[1]),
               !.pendingSettings = << >>,
               !.saveDebounceTimer = FALSE,
               !.saved = << >>],
            "debounce", worker.pendingSettings, << >>, FALSE)

\* handleToggleExtension(payload, tabId): the settings of the UI, or the
\* enabled flag alone, are saved and the settings loaded again.
ToggleExtension ==
  /\ worker.messages < MaxMessages
  /\ \E enabled \in BOOLEAN, uiSettings \in {<< >>, <<UiSettings>>} :
       LET storage == IF uiSettings # << >>
                      THEN saveSettings(worker.revision, uiSettings[1])
                      ELSE saveSettings(worker.revision,
                                        [enabled |-> Bool(enabled)])
       IN Worked([worker EXCEPT !.storage = storage,
                                !.saved = << >>,
                                !.sinceReset = FALSE,
                                !.latest = << >>],
                 "TOGGLE_EXTENSION",
                 IF uiSettings = << >> THEN [enabled |-> Bool(enabled)]
                 ELSE [enabled |-> Bool(enabled), settings |-> uiSettings[1]],
                 loadSettings(worker.revision, storage), TRUE)

\* handleResetSettings(): resetSettings() stores the defaults.
ResetSettings ==
  /\ worker.messages < MaxMessages
  /\ Worked([worker EXCEPT !.storage = resetSettings,
                           !.saved = << >>,
                           !.sinceReset = TRUE,
                           !.latest = << >>],
            "RESET_SETTINGS", << >>, DEFAULT_SETTINGS, TRUE)

\* handleGetSettings(tabId): a stored enabled flag without a capture for the
\* tab is reported as false and saved as false.
GetSettings ==
  /\ worker.messages < MaxMessages
  /\ \E tracked \in BOOLEAN :
       LET loaded == loadSettings(worker.revision, worker.storage)
           stale == loaded.enabled = Bool(TRUE) /\ ~tracked
       IN Worked([worker EXCEPT
                    !.storage = IF stale
                                THEN saveSettings(worker.revision,
                                                  [enabled |-> Bool(FALSE)])
                                ELSE @,
                    !.saved = << >>,
                    !.latest = IF stale THEN << >> ELSE @],
                 "GET_SETTINGS", << >>,
                 IF stale THEN [loaded EXCEPT !.enabled = Bool(FALSE)]
                 ELSE loaded, TRUE)

SettingsNext ==
  \/ ValidateSettings
  \/ SaveSettings
  \/ LoadSettings
  \/ UpdateSettings
  \/ DebounceFires
  \/ ToggleExtension
  \/ ResetSettings
  \/ GetSettings

SettingsSpec == SettingsInit /\ [][SettingsNext]_vars

----------------------------------------------------------------------------
(* The audio processor: the one of the offscreen document (constants.js,   *)
(* 108-760) and the shared one made by createAudioProcessor                *)
(* (audio-processor.js).  A node reference is TRUE when it is not null; a  *)
(* stream is a positive number and 0 is null.  calls lists, for the last   *)
(* operation, the calls made on the source and on the pitch shifter.       *)

MaxStreams == 2
TracksPerStream == 2
MaxGainDb == 12

One == [num |-> 1, den |-> 1]
Zero == [num |-> 0, den |-> 1]

\* The tracks of a stream.
Tracks(stream) == {<<stream, t>> : t \in 1..TracksPerStream}

GraphNodes ==
  {"bassBoostFilter", "reverbHighpass", "convolver", "dryGain", "wetGain",
   "outputGain"}

NodeNames(variant) ==
  IF variant = "offscreen" THEN GraphNodes \cup {"pitchShifter"} ELSE GraphNodes

\* obj[k], undefined when obj has no such key
Get(obj, k) == IF k \in DOMAIN obj THEN obj[k] ELSE Undefined

\* obj[k] = value
Assign(obj, k, value) ==
  IF value = Undefined THEN Pick(obj, DOMAIN obj \ {k})
  ELSE Spread(obj, k :> value)

Truthy(x) == Boolean(x) = Bool(TRUE)

\* a ?? b
Coalesce(a, b) == IF a.type \in {"undefined", "null"} THEN b ELSE a

\* calculateBassBoostGain(percent), in dB
calculateBassBoostGain(percent) ==
  LET clampedPercent == Max(BassBoostMin, Min(BassBoostMax, percent))
  IN [num |-> clampedPercent * MaxGainDb, den |-> PercentFull]

NoGains == [wet |-> Zero, dry |-> Zero, bass |-> Zero]

NewAudioProcessor(variant) ==
  [ variant |-> variant,
    context |-> FALSE,
    source |-> 0,
    mediaStream |-> 0,
    nodes |-> [n \in NodeNames(variant) |-> FALSE],
    shifter |-> [tempo |-> One, pitch |-> One, outputNode |-> FALSE],
    route |-> "none",
    gains |-> NoGains,
    currentSettings |-> DEFAULT_SETTINGS,
    live |-> {},
    streams |-> 0,
    lastOp |-> "init",
    arg |-> << >>,
    calls |-> << >>,
    raised |-> FALSE ]

HasShifter(ap) == "pitchShifter" \in DOMAIN ap.nodes /\ ap.nodes.pitchShifter

Called(ap, names) == [ap EXCEPT !.calls = @ \o names]

\* initAudioContext() / initContext() when the context can be made
initAudioContext(ap) == [ap EXCEPT !.context = TRUE]

\* setupAudioGraph() / setupGraph(): the nodes are made again; a source that
\* was connected stays connected to the old nodes.
setupAudioGraph(ap) ==
  IF ~ap.context THEN ap
  ELSE LET made == [ap EXCEPT
                      !.nodes = [n \in DOMAIN @ |-> TRUE],
                      !.gains = [wet |-> Zero, dry |-> One, bass |-> Zero],
                      !.route = IF ap.source # 0 /\ ap.nodes.outputGain
                                THEN "stale" ELSE @]
       IN IF ap.variant = "offscreen"
          THEN Called([made EXCEPT !.shifter = [tempo |-> One, pitch |-> One,
                                                outputNode |-> TRUE]],
                      <<"new", "tempo", "pitch">>)
          ELSE made

\* connectSourceToGraph()
connectSourceToGraph(ap) ==
  IF ap.source = 0 THEN ap
  ELSE LET cut == IF HasShifter(ap) /\ ap.shifter.outputNode
                  THEN Called(ap, <<"source.disconnect",
                                    "outputNode.disconnect", "clear">>)
                  ELSE Called(ap, <<"source.disconnect">>)
       IN IF Truthy(Get(cut.currentSettings, "preservePitch")) /\ HasShifter(cut)
          THEN Called([cut EXCEPT
                         !.route = "pitchShifter",
                         !.shifter.tempo = One,
                         !.shifter.pitch =
                           [num |-> SpeedDen,
                            den |-> cut.currentSettings.speed.v]],
                      <<"source.connect", "outputNode.connect", "tempo",
                        "pitch">>)
          ELSE Called([cut EXCEPT !.route = "bassBoostFilter"],
                      <<"source.connect">>)

\* connectTabAudio(streamId) once getUserMedia has given the stream
connectTabAudio(ap, stream) ==
  LET ready == IF ap.context THEN ap ELSE setupAudioGraph(initAudioContext(ap))
      freed == [ready EXCEPT !.live = IF ready.mediaStream # 0
                                      THEN @ \ Tracks(ready.mediaStream)
                                      ELSE @]
  IN connectSourceToGraph([freed EXCEPT !.mediaStream = stream,
                                        !.source = stream,
                                        !.live = @ \cup Tracks(stream),
                                        !.streams = stream])

\* connectStream(stream) of the shared processor; without a context
\* createMediaStreamSource is called on null and the call throws after the
\* stream has been taken, without a graph source.connect(null) throws.
connectStream(ap, stream) ==
  LET freed == [ap EXCEPT !.live = (IF ap.mediaStream # 0
                                    THEN @ \ Tracks(ap.mediaStream)
                                    ELSE @) \cup Tracks(stream),
                          !.mediaStream = stream,
                          !.streams = stream,
                          !.route = "none"]
  IN IF ~ap.context THEN [freed EXCEPT !.raised = TRUE]
     ELSE IF ~ap.nodes.bassBoostFilter
          THEN [freed EXCEPT !.source = stream, !.raised = TRUE]
          ELSE Called([freed EXCEPT !.source = stream,
                                    !.route = "bassBoostFilter"],
                      <<"source.connect">>)

\* (mutant) the buffers are cleared on every call.
updateSpeed_alwaysClears(ap, value) ==
  LET playbackRate == Num(calculatePlaybackRate(value.v))
      previousSpeed == ap.currentSettings.speed
      set == [ap EXCEPT !.currentSettings.speed = playbackRate]
  IN IF ap.variant = "offscreen"
        /\ Truthy(Get(ap.currentSettings, "preservePitch")) /\ HasShifter(ap)
     THEN Called([set EXCEPT !.shifter.tempo = One,
                             !.shifter.pitch = [num |-> SpeedDen,
                                                den |-> playbackRate.v]],
                 <<"clear", "tempo", "pitch">>)
     ELSE set

\* updateSpeed(value)
updateSpeed(ap, value) ==
  LET playbackRate == Num(calculatePlaybackRate(value.v))
      previousSpeed == ap.currentSettings.speed
      set == [ap EXCEPT !.currentSettings.speed = playbackRate]
  IN IF ap.variant = "offscreen"
        /\ Truthy(Get(ap.currentSettings, "preservePitch")) /\ HasShifter(ap)
     THEN Called([set EXCEPT !.shifter.tempo = One,
                             !.shifter.pitch = [num |-> SpeedDen,
                                                den |-> playbackRate.v]],
                 IF previousSpeed # playbackRate
                 THEN <<"clear", "tempo", "pitch">>
                 ELSE <<"tempo", "pitch">>)
     ELSE set

\* updatePreservePitch(enabled)
updatePreservePitch(ap, enabled) ==
  LET wasEnabled == Get(ap.currentSettings, "preservePitch")
      set == [ap EXCEPT !.currentSettings = Assign(@, "preservePitch", enabled)]
  IN IF wasEnabled # enabled /\ ap.source # 0
     THEN connectSourceToGraph(set) ELSE set

\* updateReverb(value)
updateReverb(ap, value) ==
  LET mix == calculateWetDryMix(value.v)
      set == [ap EXCEPT !.currentSettings.reverb = value]
  IN IF ap.nodes.wetGain /\ ap.nodes.dryGain
     THEN [set EXCEPT !.gains.wet = mix.wetGain, !.gains.dry = mix.dryGain]
     ELSE set

\* updateBassBoost(value)
updateBassBoost(ap, value) ==
  LET gainDb == calculateBassBoostGain(value.v)
      set == [ap EXCEPT !.currentSettings.bassBoost = value]
  IN IF ap.nodes.bassBoostFilter THEN [set EXCEPT !.gains.bass = gainDb]
     ELSE set

\* applySettings(settings)
applySettings(ap, settings) ==
  LET current == ap.currentSettings
      speed == Coalesce(Get(settings, "speed"), current.speed)
      wet == Coalesce(Get(settings, "reverb"), current.reverb)
      bassBoost == Coalesce(Get(settings, "bassBoost"), current.bassBoost)
      preservePitch == Coalesce(Get(settings, "preservePitch"),
                                Get(current, "preservePitch"))
      routed == IF ap.variant = "offscreen"
                THEN updatePreservePitch(ap, preservePitch) ELSE ap
  IN updateBassBoost(updateReverb(updateSpeed(routed, speed), wet), bassBoost)

\* (mutant) the tracks of the stream are left running.
disconnect_keepsTracks(ap) ==
  [ap EXCEPT !.source = 0,
             !.mediaStream = 0,
             !.nodes = [n \in DOMAIN @ |-> FALSE],
             !.shifter.outputNode = FALSE,
             !.route = "none",
             !.gains = NoGains,
             !.context = FALSE,
             !.currentSettings = DEFAULT_SETTINGS,
             !.calls = @ \o (IF ap.source # 0 THEN <<"source.disconnect">>
                             ELSE << >>)
                        \o (IF HasShifter(ap) THEN <<"disconnect">>
                            ELSE << >>)]

\* disconnect(): an error of a node's disconnect() or of context.close() is
\* caught and changes nothing.
disconnect(ap) ==
  [ap EXCEPT !.source = 0,
             !.live = IF ap.mediaStream # 0 THEN @ \ Tracks(ap.mediaStream)
                      ELSE @,
             !.mediaStream = 0,
             !.nodes = [n \in DOMAIN @ |-> FALSE],
             !.shifter.outputNode = FALSE,
             !.route = "none",
             !.gains = NoGains,
             !.context = FALSE,
             !.currentSettings = DEFAULT_SETTINGS,
             !.calls = @ \o (IF ap.source # 0 THEN <<"source.disconnect">>
                             ELSE << >>)
                        \o (IF HasShifter(ap) THEN <<"disconnect">>
                            ELSE << >>)]

\* Settings sent with START_CAPTURE and UPDATE_AUDIO.
AudioSettings ==
  { Object(f) : f \in
      [ speed : {Undefined, Num(80), Num(200)},
        reverb : {Undefined, Num(50)},
        preservePitch : {Undefined, Bool(TRUE), Bool(FALSE)} ] }
    \cup { [bassBoost |-> Num(30)],
           [speed |-> Num(SpeedDen), bassBoost |-> Num(150)] }

AudioInit ==
  /\ InitShifter({MonoLayout}, << >>)
  /\ reverb = NoReverb
  /\ mapping = << >>
  /\ worker = << >>
  /\ serviceWorker = << >>
  /\ \E variant \in {"offscreen", "shared"} :
       audioProcessor = NewAudioProcessor(variant)

\* An operation of the processor: what it was, its argument and the state it
\* leaves; calls and raised are those of this operation alone.
Operated(op, value, next) ==
  /\ audioProcessor' = [next EXCEPT !.lastOp = op, !.arg = value]
  /\ UNCHANGED <<shifterVars, reverb, mapping, worker, serviceWorker>>

Fresh(ap) == [ap EXCEPT !.calls = << >>, !.raised = FALSE]

\* START_CAPTURE in the offscreen document: the context cannot be made, or
\* getUserMedia rejects after the graph was set up, or the stream is connected
\* and the settings of the message applied.
StartCapture ==
  /\ audioProcessor.variant = "offscreen"
  /\ \E outcome \in {"context", "stream", "connected"},
        settings \in {<< >>} \cup {<<x>> : x \in AudioSettings} :
       LET ap == Fresh(audioProcessor)
           graph == setupAudioGraph(initAudioContext(ap))
           stream == ap.streams + 1
           tab == connectTabAudio(graph, stream)
       IN CASE outcome = "context" ->
                 /\ ~ap.context
                 /\ settings = << >>
                 /\ Operated("START_CAPTURE", outcome, ap)
            [] outcome = "stream" ->
                 /\ settings = << >>
                 /\ Operated("START_CAPTURE", outcome, graph)
            [] outcome = "connected" ->
                 /\ ap.streams < MaxStreams
                 /\ Operated("START_CAPTURE", outcome,
                             IF settings = << >> THEN tab
                             ELSE applySettings(tab, settings[1]))

\* initContext() of the shared processor
InitContext ==
  /\ audioProcessor.variant = "shared"
  /\ ~audioProcessor.context
  /\ Operated("initContext", << >>, initAudioContext(Fresh(audioProcessor)))

\* setupGraph() of the shared processor
SetupGraph ==
  /\ audioProcessor.variant = "shared"
  /\ audioProcessor.lastOp # "setupGraph"
  /\ Operated("setupGraph", << >>, setupAudioGraph(Fresh(audioProcessor)))

\* connectStream(stream) of the shared processor
ConnectStream ==
  /\ audioProcessor.variant = "shared"
  /\ audioProcessor.streams < MaxStreams
  /\ Operated("connectStream", audioProcessor.streams + 1,
              connectStream(Fresh(audioProcessor), audioProcessor.streams + 1))

\* UPDATE_AUDIO / applySettings(settings)
ApplySettings ==
  \E settings \in AudioSettings :
    Operated("applySettings", settings,
             applySettings(Fresh(audioProcessor), settings))

\* updateSpeed(value); the argument kept is the speed before the call.
UpdateSpeed ==
  \E value \in {Num(80), Num(SpeedDen), Num(200)} :
    Operated("updateSpeed",
             [value |-> value,
              previousSpeed |-> audioProcessor.currentSettings.speed,
              shifted |-> /\ Truthy(Get(audioProcessor.currentSettings,
                                        "preservePitch"))
                          /\ HasShifter(audioProcessor)],
             updateSpeed(Fresh(audioProcessor), value))

\* updatePreservePitch(enabled)
UpdatePreservePitch ==
  /\ audioProcessor.variant = "offscreen"
  /\ \E enabled \in BOOLEAN :
       Operated("updatePreservePitch", Bool(enabled),
                updatePreservePitch(Fresh(audioProcessor), Bool(enabled)))

\* STOP_CAPTURE / disconnect(); the argument kept is the stream held before
\* the call and whether the disconnect() of the nodes threw.
Disconnect ==
  \E throws \in BOOLEAN :
    Operated("disconnect",
             [mediaStream |-> audioProcessor.mediaStream, throws |-> throws],
             disconnect(Fresh(audioProcessor)))

\* A track of the captured tab ends by itself.
TrackEnds ==
  \E track \in audioProcessor.live :
    Operated("ended", track,
             [Fresh(audioProcessor) EXCEPT !.live = @ \ {track}])

AudioNext ==
  \/ StartCapture
  \/ InitContext
  \/ SetupGraph
  \/ ConnectStream
  \/ ApplySettings
  \/ UpdateSpeed
  \/ UpdatePreservePitch
  \/ Disconnect
  \/ TrackEnds

AudioSpec == AudioInit /\ [][AudioNext]_vars

----------------------------------------------------------------------------
(* The Chrome service worker (service-worker.js, 1-820): its handlers run    *)
(* one synchronous stretch at a time and other handlers run while one      *)
(* awaits.  A task is a handler that is waiting at an await; tabStates is a  *)
(* Map, kept as the list of its entries in insertion order.                  *)

MaxTasks == 2
MaxHandlers == 3
Tabs == {1, 2}

\* The settings module as the service worker imports it.
Settings == 1

has(tabStates, tabId) == \E i \in DOMAIN tabStates : tabStates[i].tabId = tabId

delete(tabStates, tabId) ==
  SelectSeq(tabStates, LAMBDA entry : entry.tabId # tabId)

set(tabStates, entry) ==
  IF has(tabStates, entry.tabId)
  THEN [i \in DOMAIN tabStates |->
          IF tabStates[i].tabId = entry.tabId THEN entry ELSE tabStates[i]]
  ELSE Append(tabStates, entry)

get(tabStates, tabId) ==
  tabStates[CHOOSE i \in DOMAIN tabStates : tabStates[i].tabId = tabId]

\* for (const [tabId, state] of tabStates) if (state.isProcessing): the first
\* such entry, 0 when there is none.
firstProcessing(tabStates) ==
  LET found == {i \in DOMAIN tabStates : tabStates[i].isProcessing}
  IN IF found = {} THEN 0
     ELSE tabStates[CHOOSE i \in found : \A j \in found : i <= j].tabId

Without(tasks, i) == SubSeq(tasks, 1, i - 1) \o SubSeq(tasks, i + 1, Len(tasks))

NewServiceWorker ==
  [ tabStates |-> << >>,
    offscreenDocument |-> FALSE,
    isRecapturing |-> FALSE,
    storage |-> << >>,
    pendingSettings |-> << >>,
    saveDebounceTimer |-> FALSE,
    tasks |-> << >>,
    \* history
    handlers |-> 0,
    unsaved |-> << >>,
    lastOp |-> [name |-> "init", tabId |-> 0, outcome |-> "", streamId |-> 0] ]

ServiceWorkerInit ==
  /\ InitShifter({MonoLayout}, << >>)
  /\ reverb = NoReverb
  /\ mapping = << >>
  /\ worker = << >>
  /\ audioProcessor = << >>
  /\ serviceWorker = NewServiceWorker

Task(kind, pc, tabId, value) ==
  [ kind |-> kind, pc |-> pc, tabId |-> tabId, value |-> value,
    streamId |-> 0, id |-> serviceWorker.handlers + 1 ]

Op(name, tabId, outcome, streamId) ==
  [name |-> name, tabId |-> tabId, outcome |-> outcome, streamId |-> streamId]

\* A synchronous stretch of the service worker.
Ran(next, op) ==
  /\ serviceWorker' = [next EXCEPT !.lastOp = op]
  /\ UNCHANGED <<shifterVars, reverb, mapping, worker, audioProcessor>>

CanStart ==
  /\ Len(serviceWorker.tasks) < MaxTasks
  /\ serviceWorker.handlers < MaxHandlers

Started(sw, task) ==
  [sw EXCEPT !.tasks = Append(@, task), !.handlers = @ + 1]

At(i, kinds, pc) ==
  /\ serviceWorker.tasks[i].kind \in kinds
  /\ serviceWorker.tasks[i].pc = pc

Goto(sw, i, pc) == [sw EXCEPT !.tasks[i].pc = pc]

Ended(sw, i) == [sw EXCEPT !.tasks = Without(@, i)]

\* TOGGLE_EXTENSION with payload { enabled } for a tab: handleToggleExtension
\* up to its first await.
ReceiveToggle ==
  /\ CanStart
  /\ \E tabId \in Tabs, enabled \in BOOLEAN :
       Ran(Started(serviceWorker, Task("toggle", "save", tabId, enabled)),
           Op("TOGGLE_EXTENSION", tabId, "", 0))

\* await saveSettings({ enabled }); updateBadge; loadSettings.  When saving
\* fails the handler reverts the badge and answers with the error.
ToggleSave ==
  \E i \in DOMAIN serviceWorker.tasks, saved \in BOOLEAN :
    /\ At(i, {"toggle"}, "save")
    /\ LET task == serviceWorker.tasks[i]
       IN IF saved
          THEN Ran(Goto([serviceWorker EXCEPT
                           !.storage =
                             saveSettings(Settings,
                                          [enabled |-> Bool(task.value)])],
                        i, IF task.value THEN "hasOffscreen" ELSE "closeOff"),
                   Op("saveSettings", task.tabId, "saved", 0))
          ELSE Ran(Ended(serviceWorker, i),
                   Op("saveSettings", task.tabId, "threw", 0))

\* const hasOffscreen = await hasOffscreenDocument()
ToggleHasOffscreen ==
  \E i \in DOMAIN serviceWorker.tasks :
    /\ At(i, {"toggle"}, "hasOffscreen")
    /\ Ran(Goto(serviceWorker, i,
                IF serviceWorker.offscreenDocument THEN "close" ELSE "clear"),
           Op("hasOffscreenDocument", serviceWorker.tasks[i].tabId, "", 0))

\* await closeOffscreenDocument() and the delay after it, in
\* handleToggleExtension (both branches) and in handleStreamEnded.
CloseOffscreen ==
  \E i \in DOMAIN serviceWorker.tasks :
    /\ serviceWorker.tasks[i].pc \in {"close", "closeOff"}
    /\ Ran(Goto([serviceWorker EXCEPT !.offscreenDocument = FALSE], i,
                CASE serviceWorker.tasks[i].pc = "closeOff" -> "clearOff"
                  [] serviceWorker.tasks[i].kind = "toggle" -> "clear"
                  [] OTHER -> "ensure"),
           Op("closeOffscreenDocument", serviceWorker.tasks[i].tabId, "", 0))

\* tabStates.clear(); await ensureContentScript(tabId)
ToggleClear ==
  \E i \in DOMAIN serviceWorker.tasks :
    /\ At(i, {"toggle"}, "clear")
    /\ Ran(Goto([serviceWorker EXCEPT !.tabStates = << >>], i, "ensure"),
           Op("clear", serviceWorker.tasks[i].tabId, "", 0))

\* tabStates.clear() of the disabling branch; the handler ends.
ToggleOffClear ==
  \E i \in DOMAIN serviceWorker.tasks :
    /\ At(i, {"toggle"}, "clearOff")
    /\ Ran(Ended([serviceWorker EXCEPT !.tabStates = << >>], i),
           Op("clear", serviceWorker.tasks[i].tabId, "disabled", 0))

\* (mutant) the catch of startAudioCapture leaves the tab's entry.
Thrown_keepsEntry(i, step) ==
  LET task == serviceWorker.tasks[i]
  IN Ran(IF task.kind = "toggle" THEN Ended(serviceWorker, i)
         ELSE Goto(serviceWorker, i, "disable"),
         Op("startAudioCapture", task.tabId, step, task.streamId))

\* startAudioCapture throws: its catch deletes the tab's entry; the toggle
\* handler then answers with the error, handleStreamEnded goes on to save the
\* disabled state.
Thrown(i, step) ==
  LET task == serviceWorker.tasks[i]
      cleaned == [serviceWorker EXCEPT !.tabStates = delete(@, task.tabId)]
  IN Ran(IF task.kind = "toggle" THEN Ended(cleaned, i)
         ELSE Goto(cleaned, i, "disable"),
         Op("startAudioCapture", task.tabId, step, task.streamId))

\* startAudioCapture: await ensureOffscreenDocument()
StartEnsure ==
  \E i \in DOMAIN serviceWorker.tasks, created \in BOOLEAN :
    /\ At(i, {"toggle", "recapture"}, "ensure")
    /\ IF created \/ serviceWorker.offscreenDocument
       THEN Ran(Goto([serviceWorker EXCEPT !.offscreenDocument = TRUE], i,
                     "settings"),
                Op("ensureOffscreenDocument", serviceWorker.tasks[i].tabId,
                   "", 0))
       ELSE Thrown(i, "offscreen")

\* startAudioCapture: const settings = await loadSettings()
StartLoadSettings ==
  \E i \in DOMAIN serviceWorker.tasks, loaded \in BOOLEAN :
    /\ At(i, {"toggle", "recapture"}, "settings")
    /\ IF loaded
       THEN Ran(Goto([serviceWorker EXCEPT
                        !.tasks[i].value =
                          loadSettings(Settings, serviceWorker.storage)],
                     i, "streamId"),
                Op("loadSettings", serviceWorker.tasks[i].tabId, "", 0))
       ELSE Thrown(i, "settings")

\* startAudioCapture: the stream id arrives, is empty, or the call rejects.
StartStreamId ==
  \E i \in DOMAIN serviceWorker.tasks,
     outcome \in {"streamId", "empty", "rejected"} :
    /\ At(i, {"toggle", "recapture"}, "streamId")
    /\ IF outcome = "streamId"
       THEN Ran(Goto([serviceWorker EXCEPT
                        !.tasks[i].streamId = serviceWorker.tasks[i].id],
                     i, "set"),
                Op("getMediaStreamId", serviceWorker.tasks[i].tabId, "",
                   serviceWorker.tasks[i].id))
       ELSE Thrown(i, outcome)

\* startAudioCapture: after chrome.tabs.get, tabStates.set(tabId, ...) and
\* START_CAPTURE is sent; url is 0 when the tab could not be read.
StartSet ==
  \E i \in DOMAIN serviceWorker.tasks, url \in {0, 1} :
    /\ At(i, {"toggle", "recapture"}, "set")
    /\ LET task == serviceWorker.tasks[i]
       IN Ran(Goto([serviceWorker EXCEPT
                      !.tabStates =
                        set(@, [tabId |-> task.tabId, isProcessing |-> TRUE,
                                streamId |-> task.streamId,
                                settings |-> task.value, url |-> url])],
                   i, "response"),
              Op("set", task.tabId, "", task.streamId))

\* startAudioCapture: the answer to START_CAPTURE; with success it returns.
StartResponse ==
  \E i \in DOMAIN serviceWorker.tasks,
     outcome \in {"success", "failure", "rejected"} :
    /\ At(i, {"toggle", "recapture"}, "response")
    /\ IF outcome = "success"
       THEN Ran(Goto(serviceWorker, i, "enable"),
                Op("startAudioCapture", serviceWorker.tasks[i].tabId,
                   "completed", serviceWorker.tasks[i].streamId))
       ELSE Thrown(i, outcome)

\* The ENABLE message to the content script.  handleToggleExtension ignores
\* its failure; in handleStreamEnded loadSettings or the second send can
\* throw, otherwise the finally block resets isRecapturing.
Enable ==
  \E i \in DOMAIN serviceWorker.tasks, sent \in BOOLEAN :
    /\ At(i, {"toggle", "recapture"}, "enable")
    /\ LET task == serviceWorker.tasks[i]
       IN CASE task.kind = "toggle" ->
                 /\ sent
                 /\ Ran(Ended(serviceWorker, i),
                        Op("ENABLE", task.tabId, "enabled", 0))
            [] task.kind = "recapture" /\ sent ->
                 Ran(Ended([serviceWorker EXCEPT !.isRecapturing = FALSE], i),
                     Op("ENABLE", task.tabId, "recaptured", 0))
            [] OTHER ->
                 Ran(Goto(serviceWorker, i, "disable"),
                     Op("ENABLE", task.tabId, "threw", 0))

\* handleStreamEnded after a failed recapture: updateBadge(false), await
\* saveSettings({ enabled: false }), which can throw, and the finally block.
RecaptureDisable ==
  \E i \in DOMAIN serviceWorker.tasks, saved \in BOOLEAN :
    /\ At(i, {"recapture"}, "disable")
    /\ Ran(Ended([serviceWorker EXCEPT
                    !.storage = IF saved
                                THEN saveSettings(Settings,
                                                  [enabled |-> Bool(FALSE)])
                                ELSE @,
                    !.isRecapturing = FALSE], i),
           Op("handleStreamEnded", serviceWorker.tasks[i].tabId,
              IF saved THEN "failed" ELSE "threw", 0))

\* (mutant) isRecapturing is set but never tested.
handleStreamEnded_unlocked(name) ==
  LET tabId == firstProcessing(serviceWorker.tabStates)
  IN IF tabId = 0
     THEN Ran([serviceWorker EXCEPT !.handlers = @ + 1],
              Op(name, 0, "idle", 0))
     ELSE Ran(Started([serviceWorker EXCEPT
                         !.isRecapturing = TRUE,
                         !.tabStates = delete(@, tabId)],
                      Task("recapture", "close", tabId, << >>)),
              Op(name, tabId, "recapturing", 0))

\* handleStreamEnded() up to its first await.
handleStreamEnded(name) ==
  LET tabId == firstProcessing(serviceWorker.tabStates)
  IN IF serviceWorker.isRecapturing
     THEN Ran([serviceWorker EXCEPT !.handlers = @ + 1],
              Op(name, 0, "skipped", 0))
     ELSE IF tabId = 0
          THEN Ran([serviceWorker EXCEPT !.handlers = @ + 1],
                   Op(name, 0, "idle", 0))
          ELSE Ran(Started([serviceWorker EXCEPT
                              !.isRecapturing = TRUE,
                              !.tabStates = delete(@, tabId)],
                           Task("recapture", "close", tabId, << >>)),
                   Op(name, tabId, "recapturing", 0))

\* STREAM_ENDED from the offscreen document
ReceiveStreamEnded ==
  /\ CanStart
  /\ handleStreamEnded("STREAM_ENDED")

\* MEDIA_CHANGED from the content script of a tab
ReceiveMediaChanged ==
  /\ CanStart
  /\ \E tabId \in Tabs :
       IF has(serviceWorker.tabStates, tabId)
       THEN handleStreamEnded("MEDIA_CHANGED")
       ELSE Ran([serviceWorker EXCEPT !.handlers = @ + 1],
                Op("MEDIA_CHANGED", tabId, "untracked", 0))

\* chrome.tabs.onRemoved: handleTabRemoved and stopAudioCapture up to the
\* await of STOP_CAPTURE.
TabRemoved ==
  /\ CanStart
  /\ \E tabId \in Tabs :
       IF has(serviceWorker.tabStates, tabId)
       THEN Ran(Started(serviceWorker, Task("stop", "send", tabId, << >>)),
                Op("stopAudioCapture", tabId, "STOP_CAPTURE", 0))
       ELSE Ran([serviceWorker EXCEPT !.handlers = @ + 1],
                Op("stopAudioCapture", tabId, "untracked", 0))

\* (mutant) the entry is removed only when STOP_CAPTURE was answered.
StopFinally_onSuccess(sw, i, sent) ==
  LET tabId == sw.tasks[i].tabId
      cleaned == IF sent THEN [sw EXCEPT !.tabStates = delete(@, tabId)] ELSE sw
  IN IF Len(cleaned.tabStates) = 0 THEN Goto(cleaned, i, "closeDoc")
     ELSE Ended(cleaned, i)

\* stopAudioCapture: the finally block
StopFinally(sw, i, sent) ==
  LET tabId == sw.tasks[i].tabId
      cleaned == [sw EXCEPT !.tabStates = delete(@, tabId)]
  IN IF Len(cleaned.tabStates) = 0 THEN Goto(cleaned, i, "closeDoc")
     ELSE Ended(cleaned, i)

\* stopAudioCapture: STOP_CAPTURE was answered or failed.
StopSent ==
  \E i \in DOMAIN serviceWorker.tasks, sent \in BOOLEAN :
    /\ At(i, {"stop"}, "send")
    /\ Ran(StopFinally(serviceWorker, i, sent),
           Op("stopAudioCapture", serviceWorker.tasks[i].tabId,
              IF sent THEN "stopped" ELSE "failed", 0))

\* stopAudioCapture: await closeOffscreenDocument()
StopCloseDocument ==
  \E i \in DOMAIN serviceWorker.tasks :
    /\ At(i, {"stop"}, "closeDoc")
    /\ Ran(Ended([serviceWorker EXCEPT !.offscreenDocument = FALSE], i),
           Op("closeOffscreenDocument", serviceWorker.tasks[i].tabId,
              "stopped", 0))

\* Payloads of UPDATE_SETTINGS in this specification.
CapturePayloads == { [speed |-> Num(80)], [reverb |-> Num(50)] }

\* UPDATE_SETTINGS: handleUpdateSettings up to await loadSettings()
ReceiveUpdateSettings ==
  /\ CanStart
  /\ \E payload \in CapturePayloads :
       Ran(Started(serviceWorker, Task("update", "load", 0, payload)),
           Op("UPDATE_SETTINGS", 0, "", 0))

\* handleUpdateSettings: the settings are loaded and merged with the payload.
UpdateLoad ==
  \E i \in DOMAIN serviceWorker.tasks :
    /\ At(i, {"update"}, "load")
    /\ Ran(Goto([serviceWorker EXCEPT
                   !.tasks[i].value =
                     Spread(loadSettings(Settings, serviceWorker.storage), @)],
                i, "apply"),
           Op("loadSettings", 0, "", 0))

\* handleUpdateSettings after forwarding: the tabs' settings, pendingSettings
\* and the debounce timer.
UpdateApply ==
  \E i \in DOMAIN serviceWorker.tasks :
    /\ At(i, {"update"}, "apply")
    /\ LET newSettings == serviceWorker.tasks[i].value
       IN Ran(Ended([serviceWorker EXCEPT
                       !.tabStates = [j \in DOMAIN @ |->
                                        [@[j] EXCEPT !.settings = newSettings]],
                       !.pendingSettings = <<newSettings>>,
                       !.saveDebounceTimer = TRUE,
                       !.unsaved = <<newSettings>>], i),
              Op("UPDATE_SETTINGS", 0, "accepted", 0))

\* The debounce timer fires: the callback up to await saveSettings(...).
TimerFires ==
  /\ serviceWorker.saveDebounceTimer
  /\ IF serviceWorker.pendingSettings # << >>
     THEN /\ Len(serviceWorker.tasks) < MaxTasks
          /\ Ran([serviceWorker EXCEPT
                    !.saveDebounceTimer = FALSE,
                    !.tasks = Append(@, [Task("save", "write", 0,
                                              serviceWorker.pendingSettings[1])
                                           EXCEPT !.id = 0]),
                    !.unsaved = IF @ = serviceWorker.pendingSettings
                                THEN << >> ELSE @],
                 Op("timer", 0, "saving", 0))
     ELSE Ran([serviceWorker EXCEPT !.saveDebounceTimer = FALSE],
              Op("timer", 0, "nothing", 0))

\* The callback after await saveSettings(pendingSettings), which the code
\* lets fail: pendingSettings = null.
SaveWritten ==
  \E i \in DOMAIN serviceWorker.tasks, saved \in BOOLEAN :
    /\ At(i, {"save"}, "write")
    /\ Ran(Ended([serviceWorker EXCEPT
                    !.storage = IF saved
                                THEN saveSettings(Settings,
                                                  serviceWorker.tasks[i].value)
                                ELSE @,
                    !.pendingSettings = << >>], i),
           Op("timer", 0, IF saved THEN "saved" ELSE "failed", 0))

\* GET_SETTINGS: const tabId = sender.tab?.id || message.tabId.  The popup is
\* not a tab and its sendToBackground adds tabId to TOGGLE_EXTENSION only, so
\* its request has no tab id (0); a request from a tab carries the tab's id.
Requesters == Tabs \cup {0}

\* handleGetSettings: tabId && settings.enabled && !tabStates.has(tabId)
handleGetSettings(tabId, settings, tabStates) ==
  tabId # 0 /\ Truthy(settings.enabled) /\ ~has(tabStates, tabId)

\* The enabled flag of the settings in a response.
Enabled(settings) == IF Truthy(settings.enabled) THEN "true" ELSE "false"

\* GET_SETTINGS: handleGetSettings up to await loadSettings()
ReceiveGetSettings ==
  /\ CanStart
  /\ \E tabId \in Requesters :
       Ran(Started(serviceWorker, Task("get", "load", tabId, << >>)),
           Op("GET_SETTINGS", tabId, "", 0))

\* handleGetSettings: the settings are loaded; either they are returned, or
\* settings.enabled = false and saveSettings({ enabled: false }) is awaited.
\* A failed load is answered with the error.
GetLoad ==
  \E i \in DOMAIN serviceWorker.tasks, loaded \in BOOLEAN :
    /\ At(i, {"get"}, "load")
    /\ LET tabId == serviceWorker.tasks[i].tabId
           settings == loadSettings(Settings, serviceWorker.storage)
       IN IF ~loaded
          THEN Ran(Ended(serviceWorker, i), Op("response", tabId, "error", 0))
          ELSE IF handleGetSettings(tabId, settings, serviceWorker.tabStates)
          THEN Ran(Goto([serviceWorker EXCEPT
                           !.tasks[i].value =
                             Spread(settings, [enabled |-> Bool(FALSE)])],
                        i, "save"),
                   Op("loadSettings", tabId, "inactive", 0))
          ELSE Ran(Ended(serviceWorker, i),
                   Op("response", tabId, Enabled(settings), 0))

\* handleGetSettings: saveSettings({ enabled: false }) has written, and
\* updateBadge(false, tabId) is awaited; a failed write is answered with the
\* error.
GetSave ==
  \E i \in DOMAIN serviceWorker.tasks, saved \in BOOLEAN :
    /\ At(i, {"get"}, "save")
    /\ IF saved
       THEN Ran(Goto([serviceWorker EXCEPT
                        !.storage =
                          saveSettings(Settings, [enabled |-> Bool(FALSE)])],
                     i, "badge"),
                Op("updateBadge", serviceWorker.tasks[i].tabId, "off", 0))
       ELSE Ran(Ended(serviceWorker, i),
                Op("response", serviceWorker.tasks[i].tabId, "error", 0))

\* handleGetSettings: return { success: true, settings }
GetRespond ==
  \E i \in DOMAIN serviceWorker.tasks :
    /\ At(i, {"get"}, "badge")
    /\ Ran(Ended(serviceWorker, i),
           Op("response", serviceWorker.tasks[i].tabId,
              Enabled(serviceWorker.tasks[i].value), 0))

\* The urls of chrome.tabs.onUpdated: 1 and 2 are pages of one origin, 3 is a
\* page of another; 0 is a changeInfo without url, or a stored url of null.
Urls == {1, 2, 3}

\* new URL(url).origin
origin(url) == (url + 1) \div 2

\* (mutant) the urls are compared, not their origins.
handleTabUpdated_comparesUrls(tabStates, tabId, url) ==
  CASE ~has(tabStates, tabId) -> "untracked"
    [] url = 0 -> "no url"
    [] get(tabStates, tabId).url = 0 -> "unknown"
    [] get(tabStates, tabId).url = url -> "kept"
    [] OTHER -> "stopping"

\* handleTabUpdated up to its return or its first await
handleTabUpdated(tabStates, tabId, url) ==
  CASE ~has(tabStates, tabId) -> "untracked"
    [] url = 0 -> "no url"
    [] get(tabStates, tabId).url = 0 -> "unknown"
    [] origin(get(tabStates, tabId).url) = origin(url) -> "kept"
    [] OTHER -> "stopping"

\* chrome.tabs.onUpdated: handleTabUpdated, and for another origin
\* stopAudioCapture up to the await of STOP_CAPTURE.
TabUpdated ==
  /\ CanStart
  /\ \E tabId \in Tabs, url \in Urls \cup {0} :
       LET outcome == handleTabUpdated(serviceWorker.tabStates, tabId, url)
           op == [name |-> "handleTabUpdated", tabId |-> tabId,
                  outcome |-> outcome, streamId |-> 0, url |-> url]
       IN CASE outcome = "kept" ->
                 Ran([serviceWorker EXCEPT
                        !.handlers = @ + 1,
                        !.tabStates =
                          set(@, [get(@, tabId) EXCEPT !.url = url])], op)
            [] outcome = "stopping" ->
                 Ran(Started(serviceWorker,
                             Task("navigate", "send", tabId, << >>)), op)
            [] OTHER ->
                 Ran([serviceWorker EXCEPT !.handlers = @ + 1], op)

\* stopAudioCapture in handleTabUpdated: STOP_CAPTURE was answered or failed;
\* the finally block removes the entry.
TabUpdatedStopSent ==
  \E i \in DOMAIN serviceWorker.tasks, sent \in BOOLEAN :
    /\ At(i, {"navigate"}, "send")
    /\ LET tabId == serviceWorker.tasks[i].tabId
           cleaned == [serviceWorker EXCEPT !.tabStates = delete(@, tabId)]
       IN Ran(Goto(cleaned, i, IF Len(cleaned.tabStates) = 0 THEN "closeDoc"
                               ELSE "badge"),
              Op("handleTabUpdated", tabId,
                 IF sent THEN "stopped" ELSE "failed", 0))

\* stopAudioCapture in handleTabUpdated: await closeOffscreenDocument()
TabUpdatedCloseDocument ==
  \E i \in DOMAIN serviceWorker.tasks :
    /\ At(i, {"navigate"}, "closeDoc")
    /\ Ran(Goto([serviceWorker EXCEPT !.offscreenDocument = FALSE], i, "badge"),
           Op("closeOffscreenDocument", serviceWorker.tasks[i].tabId,
              "navigated", 0))

\* handleTabUpdated: await updateBadge(false, tabId); the handler ends.
TabUpdatedBadge ==
  \E i \in DOMAIN serviceWorker.tasks :
    /\ At(i, {"navigate"}, "badge")
    /\ Ran(Ended(serviceWorker, i),
           Op("updateBadge", serviceWorker.tasks[i].tabId, "navigated", 0))

ServiceWorkerNext ==
  \/ ReceiveToggle
  \/ ToggleSave
  \/ ToggleHasOffscreen
  \/ CloseOffscreen
  \/ ToggleClear
  \/ ToggleOffClear
  \/ StartEnsure
  \/ StartLoadSettings
  \/ StartStreamId
  \/ StartSet
  \/ StartResponse
  \/ Enable
  \/ RecaptureDisable
  \/ ReceiveStreamEnded
  \/ ReceiveMediaChanged
  \/ TabRemoved
  \/ StopSent
  \/ StopCloseDocument
  \/ ReceiveUpdateSettings
  \/ UpdateLoad
  \/ UpdateApply
  \/ TimerFires
  \/ SaveWritten
  \/ ReceiveGetSettings
  \/ GetLoad
  \/ GetSave
  \/ GetRespond
  \/ TabUpdated
  \/ TabUpdatedStopSent
  \/ TabUpdatedCloseDocument
  \/ TabUpdatedBadge

ServiceWorkerSpec == ServiceWorkerInit /\ [][ServiceWorkerNext]_vars

----------------------------------------------------------------------------
(* Vocabulary of the claims *)

\* The last step was a process call that got a non-empty block.
CallMade == lastOp \in {"shift", "bypass"}

\* The condition of the bypass branch, as the claims state it:
\* the bypass flag is set or |pitchFactor - 1.0| < 0.001.
BypassRequested ==
  prev.bypass \/ BypassEpsilonInv * Abs(pitchFactor - PitchDen) < PitchDen

\* The processor has processed audio: its buffers and cursors are not the
\* initial ones.
Dirty(p) ==
  /\ p.inputTotal > 0
  /\ p.writeIndex # 0
  /\ \E j \in DOMAIN p.outputBuffer : p.outputBuffer[j] # << >>
  /\ \E j \in DOMAIN p.inputBuffer : p.inputBuffer[j] # 0

----------------------------------------------------------------------------
(* C1 *)

\* C1: in every process call in which the bypass flag is set or
\* |pitchFactor - 1.0| < 0.001, every output channel below
\* min(#input channels, #output channels) equals the input channel of the same
\* index, sample for sample, whatever the block size and the calls before.
C1_Passthrough ==
  (CallMade /\ BypassRequested) =>
    \A c \in 1..Min(Len(input), Len(output)) :
      /\ Len(output[c]) = Len(input[c])
      /\ \A i \in 1..Len(input[c]) : output[c][i] = input[c][i]

\* A bypassed stereo call (by the flag, with a pitch factor of 2.0) of a
\* processor that has pitch-shifted audio before.
C1_Witness ==
  /\ lastOp = "bypass"
  /\ pitchFactor = PitchMax
  /\ Len(input) = 2 /\ Len(output) = 2
  /\ arg > 1
  /\ input[1] # input[2]
  /\ Dirty(prev)

----------------------------------------------------------------------------
(* C2 *)

\* C2: in every process call (block sizes up to 4 x grain size, pitch factors
\* in [0.5, 2.0], setGrainSize / setBypass commands in between), every index
\* used on inputBuffer is in [0, bufferSize), every index used on outputBuffer
\* is in [0, outputBuffer.length) and every index used on the Hann window is
\* in [0, window.length).
C2_IndicesInRange ==
  lastOp \in {"shift", "bypass", "empty"} =>
    /\ proc.usedInput \subseteq 0..(proc.bufferSize - 1)
    /\ proc.usedInput \subseteq DOMAIN proc.inputBuffer
    /\ proc.usedOutput \subseteq DOMAIN proc.outputBuffer
    /\ proc.usedWindow \subseteq DOMAIN proc.window

\* A pitch-shifting call of the largest block at the largest grain size and
\* pitch factor 2.0 whose grains read across the end of the input ring.
C2_Witness ==
  /\ lastOp = "shift"
  /\ prev.grainSize = MaxGrainSize
  /\ arg = InputCapacityFactor * MaxGrainSize
  /\ pitchFactor = PitchMax
  /\ proc.readPosition > proc.bufferSize
  /\ proc.usedInput = DOMAIN proc.inputBuffer

----------------------------------------------------------------------------
(* C3 *)

\* Every contribution waiting in the accumulator waits for an output position
\* that has not been drained yet, and a slot holds contributions for one
\* position only (none for a position one or more capacities away).
SlotsDrainedBeforeReuse(p) ==
  \A j \in DOMAIN p.outputBuffer :
    \A k \in 1..Len(p.outputBuffer[j]) :
      /\ p.outputBuffer[j][k].pos >= p.outputReadTotal
      /\ p.outputBuffer[j][k].pos = p.outputBuffer[j][1].pos

\* Every sample the last call emitted sums contributions for its own output
\* position only: nothing was emitted twice, early or late.
EmittedInPlace ==
  \A i \in 1..Len(output[1]) :
    \A k \in 1..Len(output[1][i]) : output[1][i][k].pos = proc.drained[i]

----------------------------------------------------------------------------
(* C4 *)

\* C4: in every reachable state, also after any accepted setGrainSize command,
\* the input ring holds at least 4 x grainSize samples and the output
\* accumulator at least 2 x grainSize.
C4_Capacities ==
  /\ proc.bufferSize >= 4 * proc.grainSize
  /\ Cardinality(DOMAIN proc.inputBuffer) >= 4 * proc.grainSize
  /\ Cardinality(DOMAIN proc.outputBuffer) >= 2 * proc.grainSize

----------------------------------------------------------------------------
(* C5 *)

\* The buffers and cursors of a processor as the constructor leaves them.
Cleared(p) ==
  /\ \A j \in DOMAIN p.inputBuffer : p.inputBuffer[j] = 0
  /\ \A j \in DOMAIN p.outputBuffer : p.outputBuffer[j] = << >>
  /\ p.writeIndex = NewProcessor.writeIndex
  /\ p.readPosition = NewProcessor.readPosition
  /\ p.outputReadIndex = NewProcessor.outputReadIndex
  /\ p.outputWriteIndex = NewProcessor.outputWriteIndex
  /\ p.samplesUntilNextGrain = NewProcessor.samplesUntilNextGrain

\* C5: after clear() the input ring and the output accumulator are all zero
\* and writeIndex, readPosition, outputReadIndex, outputWriteIndex and
\* samplesUntilNextGrain have their initial values.
C5_ClearResets == lastOp = "clear" => Cleared(proc)

----------------------------------------------------------------------------
(* C6 *)

\* C6: a bypassed process call (bypass flag set or |pitchFactor - 1| < 0.001)
\* leaves inputBuffer, writeIndex, readPosition, outputBuffer,
\* outputReadIndex, outputWriteIndex, samplesUntilNextGrain and grainCounter
\* as they were before the call.
C6_BypassFrame ==
  (CallMade /\ BypassRequested) =>
    /\ proc.inputBuffer = prev.inputBuffer
    /\ proc.writeIndex = prev.writeIndex
    /\ proc.readPosition = prev.readPosition
    /\ proc.outputBuffer = prev.outputBuffer
    /\ proc.outputReadIndex = prev.outputReadIndex
    /\ proc.outputWriteIndex = prev.outputWriteIndex
    /\ proc.samplesUntilNextGrain = prev.samplesUntilNextGrain
    /\ proc.grainCounter = prev.grainCounter
    /\ Fields(proc) = Fields(prev)

\* A call bypassed by the flag alone (pitch factor 2.0) on a processor with
\* audio in both rings and a grain due (the block is as long as a grain).
C6_Witness ==
  /\ lastOp = "bypass"
  /\ prev.bypass
  /\ pitchFactor = PitchMax
  /\ Dirty(prev)
  /\ arg >= prev.samplesUntilNextGrain

----------------------------------------------------------------------------
(* C7 *)

\* C7: a setGrainSize command with a value below 512 or above 4096 changes
\* nothing (grainSize, hopSize, window, both rings, all cursors); a value in
\* [512, 4096] sets grainSize to it, hopSize to floor(grainSize / 2) and the
\* window length to grainSize.
C7_SetGrainSize ==
  lastOp = "setGrainSize" =>
    IF arg < MinGrainSize \/ arg > MaxGrainSize
    THEN Fields(proc) = Fields(prev)
    ELSE /\ proc.grainSize = arg
         /\ proc.hopSize = arg \div 2
         /\ DOMAIN proc.window = 0..(arg - 1)

\* A value above the range sent to a processor that has audio in its rings.
C7_Witness ==
  /\ lastOp = "setGrainSize"
  /\ arg > MaxGrainSize
  /\ Dirty(prev)
  /\ proc.grainSize = DefaultGrainSize

----------------------------------------------------------------------------
(* C8 *)

Cursors(p) ==
  << p.writeIndex, p.readPosition, p.outputReadIndex, p.outputWriteIndex,
     p.samplesUntilNextGrain, p.grainCounter >>

----------------------------------------------------------------------------
(* C9 *)

\* C9: with the grain size unchanged, after every non-bypassed process call
\* 0 < samplesUntilNextGrain <= hopSize, and after N input samples in total
\* from a fresh processor exactly floor(N / hopSize) + 1 grains have been
\* emitted.
C9_GrainSchedule ==
  (lastOp = "shift" /\ hist.resizes = 0) =>
    /\ 0 < proc.samplesUntilNextGrain
    /\ proc.samplesUntilNextGrain <= proc.hopSize
    /\ proc.grainCounter = (proc.inputTotal \div proc.hopSize) + 1

\* A call that starts and ends between grain boundaries and emits more than
\* one grain (N is not a multiple of hopSize before or after it).
C9_Witness ==
  /\ lastOp = "shift"
  /\ hist.resizes = 0
  /\ proc.inputTotal % proc.hopSize # 0
  /\ prev.inputTotal % prev.hopSize # 0
  /\ proc.grainCounter > prev.grainCounter + 1

----------------------------------------------------------------------------
(* C10 *)

\* The input of the last call with every channel but the first replaced.
OtherChannelsReplaced ==
  [c \in 1..Len(input) |->
     IF c = 1 THEN input[c] ELSE [i \in 1..Len(input[c]) |-> 1 - input[c][i]]]

----------------------------------------------------------------------------
(* C11 *)

\* C11: a process call with no input channels or with a zero-length block
\* writes no output sample and leaves every buffer, cursor and counter of the
\* processor unchanged; no grain is extracted.
C11_EmptyCallNoOp ==
  lastOp = "empty" =>
    /\ Fields(proc) = Fields(prev)
    /\ proc.grainCounter = prev.grainCounter
    /\ proc.inputTotal = prev.inputTotal
    /\ proc.outputReadTotal = prev.outputReadTotal
    /\ proc.usedInput = {} /\ proc.usedOutput = {} /\ proc.usedWindow = {}
    /\ \A c \in 1..Len(output) : \A i \in 1..Len(output[c]) : output[c][i] = 0

\* A zero-length block handed to a processor that is not bypassed and whose
\* next grain is due (samplesUntilNextGrain = 0).
C11_Witness ==
  /\ lastOp = "empty"
  /\ ~prev.bypass
  /\ prev.samplesUntilNextGrain <= 0
  /\ Len(input) = 1 /\ Len(input[1]) = 0

----------------------------------------------------------------------------
(* C12 *)

\* C12: generateImpulseResponse returns a buffer with exactly 2 channels
\* whose length is floor(clamp(duration, 3.0, 6.0) x sampleRate): durations
\* below 3.0 s give the 3.0 s length, durations above 6.0 s the 6.0 s length.
C12_BufferShape ==
  reverb.calls > 0 =>
    LET sampleRate == reverb.args[1]
        duration == reverb.args[2]
        expected == IF duration < MinDuration
                    THEN (MinDuration * sampleRate) \div TimeDen
                    ELSE IF duration > MaxDuration
                    THEN (MaxDuration * sampleRate) \div TimeDen
                    ELSE (duration * sampleRate) \div TimeDen
    IN /\ reverb.buffer.numberOfChannels = 2
       /\ Len(reverb.buffer.channels) = 2
       /\ reverb.buffer.length = expected
       /\ \A c \in 1..2 : DOMAIN reverb.buffer.channels[c] = 0..(expected - 1)

\* A duration inside the range whose product with the sample rate is not a
\* whole number of samples (4.5 s at 5 samples per second: 22 samples).
C12_Witness ==
  /\ reverb.calls > 0
  /\ reverb.args[2] > MinDuration /\ reverb.args[2] < MaxDuration
  /\ (reverb.args[2] * reverb.args[1]) % TimeDen # 0
  /\ reverb.buffer.length * TimeDen < reverb.args[2] * reverb.args[1]

----------------------------------------------------------------------------
(* C13 *)

\* The largest |sample| of the two channels of the returned buffer.
ReturnedPeak == maxAbs(reverb.buffer.channels[1], reverb.buffer.channels[2])

\* C13: every sample of both channels of a returned buffer lies in [-1, 1];
\* when the peak before the normalisation is > 0 the joint peak of the two
\* channels is 0.9, and when it is 0 the buffer is all zero.
C13_SamplesInRange ==
  reverb.calls > 0 =>
    /\ \A c \in 1..2 : \A i \in DOMAIN reverb.buffer.channels[c] :
         /\ reverb.buffer.channels[c][i] >= -Q
         /\ reverb.buffer.channels[c][i] <= Q
    /\ reverb.maxVal > 0 => ReturnedPeak = NormalizePeak
    /\ reverb.maxVal = 0 => ReturnedPeak = 0

\* A buffer whose peak before the normalisation was neither 0 nor 0.9, with
\* samples of both signs and two different channels.
C13_Witness ==
  /\ reverb.calls > 0
  /\ reverb.maxVal > 0 /\ reverb.maxVal # NormalizePeak
  /\ \E i \in DOMAIN reverb.buffer.channels[1] : reverb.buffer.channels[1][i] < 0
  /\ \E i \in DOMAIN reverb.buffer.channels[2] : reverb.buffer.channels[2][i] > 0
  /\ reverb.buffer.channels[1] # reverb.buffer.channels[2]

----------------------------------------------------------------------------
(* C14 *)

----------------------------------------------------------------------------
(* C15 *)

\* C15: calculatePlaybackRate(speed) = clamp(speed, 0.5, 1.5): speed itself
\* inside [0.5, 1.5], 0.5 below, 1.5 above; applying it to its own result
\* changes nothing.
C15_PlaybackRate ==
  MappingCalled("calculatePlaybackRate") =>
    /\ mapping.out = Clamped(mapping.value, SpeedMin, SpeedMax)
    /\ mapping.value < SpeedMin => mapping.out = SpeedMin
    /\ mapping.value > SpeedMax => mapping.out = SpeedMax
    /\ (mapping.value >= SpeedMin /\ mapping.value <= SpeedMax)
         => mapping.out = mapping.value
    /\ mapping.again = mapping.out

\* A speed above the range (1.51) mapped to 1.5.
C15_Witness ==
  /\ MappingCalled("calculatePlaybackRate")
  /\ mapping.value = SpeedMax + 1
  /\ mapping.out = SpeedMax

----------------------------------------------------------------------------
(* C16 *)

\* C16: calculateWetDryMix(r) returns wetGain = 1.4 x p / 100 and
\* dryGain = 1 - p / 400 with p = clamp(r, 0, 100); wetGain is in [0, 1.4],
\* dryGain in [0.75, 1], wetDryMix(0) = (0, 1), wetDryMix(100) = (1.4, 0.75).
C16_WetDryMix ==
  MappingCalled("calculateWetDryMix") =>
    LET p == Clamped(mapping.value, 0, 100)
        wet == mapping.out.wetGain
        dry == mapping.out.dryGain
    IN /\ wet.den > 0 /\ dry.den > 0
       /\ wet.num * 1000 = 14 * p * wet.den
       /\ dry.num * 400 = (400 - p) * dry.den
       /\ wet.num >= 0 /\ wet.num * 10 <= 14 * wet.den
       /\ dry.num * 4 >= 3 * dry.den /\ dry.num <= dry.den
       /\ mapping.value = 0 => wet.num = 0 /\ dry.num = dry.den
       /\ mapping.value = 100 =>
            wet.num * 10 = 14 * wet.den /\ dry.num * 4 = 3 * dry.den

\* The bundled copy called with an amount above 100: the full mix.
C16_Witness ==
  /\ MappingCalled("calculateWetDryMix")
  /\ mapping.enabled
  /\ mapping.value > ReverbMax
  /\ mapping.out.dryGain.num * 4 = 3 * mapping.out.dryGain.den

----------------------------------------------------------------------------
(* C17 *)

----------------------------------------------------------------------------
(* C18 *)

\* C18: validateSettings returns an object that has a key only if the input
\* defines it; speed, reverb and bassBoost are clamped to [0.5, 1.5], [0, 100]
\* and [0, 100] and left out when they are NaN, enabled is coerced to a
\* boolean, and an empty input gives an empty object.
C18_ValidateSettings ==
  worker # << >> /\ worker.lastOp = "validateSettings" =>
    LET given == worker.arg
        validated == worker.result
    IN /\ DOMAIN validated \subseteq DOMAIN given
       /\ \A k \in NumericKeys \cap DOMAIN given :
            LET x == Number(given[k], Unit(k))
            IN IF x.type = "nan" THEN k \notin DOMAIN validated
               ELSE /\ k \in DOMAIN validated
                    /\ validated[k] = Num(Clamped(x.v, Lowest(k), Highest(k)))
       /\ "enabled" \in DOMAIN given =>
            /\ "enabled" \in DOMAIN validated
            /\ validated.enabled \in {Bool(TRUE), Bool(FALSE)}
            /\ validated.enabled = Bool(TRUE) <=>
                 (given.enabled.type \in {"number", "boolean"}
                    /\ given.enabled.v # 0)
       /\ DOMAIN given = {} => DOMAIN validated = {}

\* A speed above the range, a NaN reverb amount and enabled given as 1:
\* the result is { speed: 1.5, enabled: true }.
C18_Witness ==
  /\ worker # << >> /\ worker.lastOp = "validateSettings"
  /\ DOMAIN worker.arg = {"speed", "reverb", "enabled"}
  /\ worker.arg.speed = Num(200)
  /\ worker.arg.reverb = NaN
  /\ worker.arg.enabled = Num(1)
  /\ worker.result = [speed |-> Num(SpeedMax), enabled |-> Bool(TRUE)]

----------------------------------------------------------------------------
(* C19 *)

\* C19: for every complete settings object s whose values are within their
\* constraints (speed, reverb, bassBoost, pitchCorrection, enabled),
\* saveSettings(s) followed by loadSettings() returns an object equal to s in
\* every field.
C19_RoundTrip ==
  (worker # << >> /\ worker.lastOp = "loadSettings" /\ worker.saved # << >>) =>
    \A k \in DOMAIN worker.saved[1] :
      k \in DOMAIN worker.result /\ worker.result[k] = worker.saved[1][k]

----------------------------------------------------------------------------
(* C20 *)

\* C20: once a RESET_SETTINGS message has been handled, the storage holds
\* DEFAULT_SETTINGS and loadSettings() returns DEFAULT_SETTINGS until the next
\* UPDATE_SETTINGS or TOGGLE_EXTENSION message, whatever updates and debounced
\* writes came before the reset.
C20_ResetHolds ==
  (worker # << >> /\ worker.sinceReset) =>
    /\ worker.storage = <<DEFAULT_SETTINGS>>
    /\ loadSettings(worker.revision, worker.storage) = DEFAULT_SETTINGS

----------------------------------------------------------------------------
(* C21 *)

\* C21: after any sequence of UPDATE_SETTINGS messages with partial payloads,
\* once the debounce timer has fired and no update is outstanding, the stored
\* settings hold, for every field, the value of the most recent payload that
\* set it.
Accepted(k, value) ==
  k \in NumericKeys =>
    value.type = "number" /\ value.v = Clamped(value.v, Lowest(k), Highest(k))

C21_AutoSave ==
  (/\ worker # << >>
   /\ worker.latest # << >>
   /\ worker.latest[1] # << >>
   /\ ~worker.saveDebounceTimer
   /\ worker.pendingSettings = << >>) =>
    /\ worker.storage # << >>
    /\ \A k \in DOMAIN worker.latest[1] :
         Accepted(k, worker.latest[1][k]) =>
           /\ k \in DOMAIN worker.storage[1]
           /\ worker.storage[1][k] = worker.latest[1][k]

----------------------------------------------------------------------------
(* C26 *)

\* C26: handling a TOGGLE_EXTENSION message whose payload carries only the
\* enabled flag leaves the stored speed, reverb and bassBoost as they were,
\* and the capture is started with those values.
C26_ToggleKeepsSettings ==
  [][ (/\ worker # << >>
       /\ worker'.lastOp = "TOGGLE_EXTENSION"
       /\ worker'.messages = worker.messages + 1
       /\ DOMAIN worker'.arg = {"enabled"}) =>
        \A k \in NumericKeys :
          LET before == loadSettings(worker.revision, worker.storage)[k]
          IN /\ worker'.storage[1][k] = before
             /\ worker'.result[k] = before ]_vars

----------------------------------------------------------------------------
(* C22 *)

\* What disconnect() is about: the processor without the history fields.
Resources(ap) ==
  [ context |-> ap.context, source |-> ap.source,
    mediaStream |-> ap.mediaStream, nodes |-> ap.nodes, shifter |-> ap.shifter,
    route |-> ap.route, gains |-> ap.gains,
    currentSettings |-> ap.currentSettings, live |-> ap.live ]

\* C22: after disconnect() returns, from any prior state, source, mediaStream,
\* every audio node reference and context are null, every track of the stream
\* held before is stopped and currentSettings equals DEFAULT_SETTINGS; a
\* second disconnect() changes nothing; no error is raised.
C22_DisconnectReleases ==
  [][ audioProcessor'.lastOp = "disconnect" =>
        LET before == audioProcessor
            after == audioProcessor'
        IN /\ after.source = 0
           /\ after.mediaStream = 0
           /\ \A n \in DOMAIN after.nodes : ~after.nodes[n]
           /\ ~after.context
           /\ before.mediaStream # 0 =>
                Tracks(before.mediaStream) \cap after.live = {}
           /\ after.currentSettings = DEFAULT_SETTINGS
           /\ ~after.raised
           /\ before.lastOp = "disconnect" =>
                Resources(after) = Resources(before) ]_vars

\* The offscreen processor held a stream and a pitch shifter, the nodes'
\* disconnect() threw, and no track of the stream is live any more.
C22_Witness ==
  /\ audioProcessor # << >>
  /\ audioProcessor.lastOp = "disconnect"
  /\ audioProcessor.variant = "offscreen"
  /\ audioProcessor.arg.mediaStream = MaxStreams
  /\ audioProcessor.arg.throws
  /\ audioProcessor.calls = <<"source.disconnect", "disconnect">>
  /\ audioProcessor.live = {}

----------------------------------------------------------------------------
(* C23 *)

\* The last n calls of a list of calls.
LastCalls(calls, n) ==
  IF Len(calls) < n THEN calls ELSE SubSeq(calls, Len(calls) - n + 1, Len(calls))

\* Call number i re-routes the source, and the pitch shifter was cleared
\* after the source was cut off for it.
ClearedBefore(calls, i) ==
  \E j \in 1..(i - 1) :
    /\ calls[j] = "clear"
    /\ \A m \in j..(i - 1) : calls[m] # "source.connect"

\* C23: when updateSpeed runs with preservePitch on and a pitch shifter
\* present, clear() is called before the pitch is assigned if the clamped
\* speed differs from the speed before, and is not called if it is the same;
\* every re-routing by connectSourceToGraph clears the shifter before it
\* connects the source again.
C23_ClearOnSpeedChange ==
  [][ LET before == audioProcessor
          after == audioProcessor'
          direct == after.lastOp = "updateSpeed"
          value == IF direct THEN after.arg.value
                   ELSE Coalesce(Get(after.arg, "speed"),
                                 before.currentSettings.speed)
          preservePitch ==
            IF direct THEN Get(before.currentSettings, "preservePitch")
            ELSE Coalesce(Get(after.arg, "preservePitch"),
                          Get(before.currentSettings, "preservePitch"))
          clamped == Num(Clamped(value.v, SpeedMin, SpeedMax))
      IN /\ (/\ after.lastOp \in {"updateSpeed", "applySettings"}
             /\ after.variant = "offscreen"
             /\ Truthy(preservePitch)
             /\ HasShifter(before)) =>
               IF clamped # before.currentSettings.speed
               THEN LastCalls(after.calls, 3) = <<"clear", "tempo", "pitch">>
               ELSE /\ LastCalls(after.calls, 2) = <<"tempo", "pitch">>
                    /\ LastCalls(after.calls, 3) # <<"clear", "tempo", "pitch">>
         /\ \A i \in DOMAIN after.calls :
              (after.calls[i] = "source.connect" /\ HasShifter(after)) =>
                ClearedBefore(after.calls, i) ]_vars

\* updateSpeed(0.8) with preservePitch on, a pitch shifter and another speed
\* before: clear(), then tempo and pitch.
C23_Witness ==
  /\ audioProcessor # << >>
  /\ audioProcessor.lastOp = "updateSpeed"
  /\ audioProcessor.arg.shifted
  /\ audioProcessor.arg.value = Num(80)
  /\ audioProcessor.arg.previousSpeed = Num(SpeedMax)
  /\ audioProcessor.calls = <<"clear", "tempo", "pitch">>
  /\ audioProcessor.shifter.pitch = [num |-> SpeedDen, den |-> 80]

----------------------------------------------------------------------------
(* C24 *)

\* C24: every input-ring slot a grain reads (grainStart + floor(i x
\* pitchFactor) and the slot after it, 0 <= i < grainSize) holds a sample the
\* stream has already written and lies at or behind the write cursor within
\* one buffer capacity.  Stated for the last grain of a pitch-shifting call,
\* with slots counted from the start of the stream.
C24_GrainReadsWritten ==
  (lastOp = "shift" /\ proc.grainCounter > prev.grainCounter) =>
    LET grainStart == proc.readPosition - proc.hopSize
        lastRead == grainStart + sourceIndex(proc.grainSize - 1, pitchFactor) + 1
    IN /\ lastRead < proc.inputTotal
       /\ grainStart >= proc.inputTotal - proc.bufferSize

----------------------------------------------------------------------------
(* C25 *)

\* No handler is waiting and no debounce timer is pending.
Quiescent == serviceWorker.tasks = << >> /\ ~serviceWorker.saveDebounceTimer

\* C25: once no further updates arrive and the timers have fired,
\* saveSettings has been called with the newSettings of the most recent
\* UPDATE_SETTINGS and pendingSettings is null, for every interleaving of
\* update handlers with a timer callback that awaits its storage write.
C25_UpdatePersisted ==
  Quiescent =>
    /\ serviceWorker.unsaved = << >>
    /\ serviceWorker.pendingSettings = << >>

----------------------------------------------------------------------------
(* C27 *)

Recapturing(sw) == {i \in DOMAIN sw.tasks : sw.tasks[i].kind = "recapture"}

\* C27: at most one execution of handleStreamEnded is past the isRecapturing
\* check; a STREAM_ENDED or MEDIA_CHANGED that arrives during a recapture
\* returns without touching tabStates or the offscreen document; and
\* isRecapturing is false again once the execution has ended, however it
\* ended.
C27_RecaptureLock ==
  [][ /\ Cardinality(Recapturing(serviceWorker')) <= 1
      /\ serviceWorker'.isRecapturing <=> Recapturing(serviceWorker') # {}
      /\ (/\ serviceWorker.isRecapturing
          /\ serviceWorker'.handlers = serviceWorker.handlers + 1
          /\ serviceWorker'.lastOp.name \in {"STREAM_ENDED", "MEDIA_CHANGED"}
          /\ serviceWorker'.lastOp.outcome # "untracked") =>
            /\ serviceWorker'.lastOp.outcome = "skipped"
            /\ serviceWorker'.tabStates = serviceWorker.tabStates
            /\ serviceWorker'.offscreenDocument = serviceWorker.offscreenDocument
            /\ serviceWorker'.tasks = serviceWorker.tasks ]_vars

\* A STREAM_ENDED was skipped while a recapture that has stored its new entry
\* waits for the answer to START_CAPTURE.
C27_Witness ==
  /\ serviceWorker # << >>
  /\ serviceWorker.lastOp.name = "STREAM_ENDED"
  /\ serviceWorker.lastOp.outcome = "skipped"
  /\ serviceWorker.isRecapturing
  /\ \E i \in DOMAIN serviceWorker.tasks :
       /\ serviceWorker.tasks[i].kind = "recapture"
       /\ serviceWorker.tasks[i].pc = "response"

----------------------------------------------------------------------------
(* C28 *)

\* C28: in every reachable state, for every interleaving of the handlers at
\* their await points, tabStates holds at most one entry with
\* isProcessing = true.
C28_OneCapture ==
  Cardinality({i \in DOMAIN serviceWorker.tabStates :
                 serviceWorker.tabStates[i].isProcessing}) <= 1

----------------------------------------------------------------------------
(* C29 *)

StartCompleted ==
  /\ serviceWorker.lastOp.name = "startAudioCapture"
  /\ serviceWorker.lastOp.outcome = "completed"

StartThrew ==
  /\ serviceWorker.lastOp.name = "startAudioCapture"
  /\ serviceWorker.lastOp.outcome # "completed"

\* The entry of the tab of the last step is the one startAudioCapture stored.
EntryStored(sw) ==
  /\ has(sw.tabStates, sw.lastOp.tabId)
  /\ get(sw.tabStates, sw.lastOp.tabId).isProcessing
  /\ get(sw.tabStates, sw.lastOp.tabId).streamId = sw.lastOp.streamId

----------------------------------------------------------------------------
(* C30 *)

----------------------------------------------------------------------------
(* C31 *)

StoredEnabled(sw) == Truthy(loadSettings(Settings, sw.storage).enabled)

\* C31: the settings returned for GET_SETTINGS report enabled = true only if
\* the requesting tab has an entry in tabStates at that moment; and when the
\* handler has found the stored flag true without a capture for the tab, the
\* stored flag is false when the badge is turned off and the response
\* carries enabled = false.
C31_ReportsCapture ==
  /\ (/\ serviceWorker.lastOp.name = "response"
      /\ serviceWorker.lastOp.outcome = "true") =>
        has(serviceWorker.tabStates, serviceWorker.lastOp.tabId)
  /\ (/\ serviceWorker.lastOp.name = "updateBadge"
      /\ serviceWorker.lastOp.outcome = "off") =>
        ~StoredEnabled(serviceWorker)
  /\ \A i \in DOMAIN serviceWorker.tasks :
       (serviceWorker.tasks[i].kind = "get"
          /\ serviceWorker.tasks[i].pc \in {"save", "badge"}) =>
         ~Truthy(serviceWorker.tasks[i].value.enabled)

----------------------------------------------------------------------------
(* C32 *)

\* The step is handleTabUpdated for a url, up to its return or first await.
Navigated(after) ==
  /\ after.lastOp.name = "handleTabUpdated"
  /\ after.lastOp.outcome \notin {"stopped", "failed"}

\* The untouched part of the service worker.
Untouched(before, after) ==
  /\ after.tabStates = before.tabStates
  /\ Len(after.tasks) = Len(before.tasks)
  /\ after.offscreenDocument = before.offscreenDocument
  /\ after.storage = before.storage

\* The entry of the tab is kept with the new url, and nothing else changes.
KeptWithUrl(before, after, tabId, url) ==
  /\ has(after.tabStates, tabId)
  /\ after.tabStates =
       set(before.tabStates, [get(before.tabStates, tabId) EXCEPT !.url = url])
  /\ get(after.tabStates, tabId).url = url
  /\ Len(after.tabStates) = Len(before.tabStates)
  /\ Len(after.tasks) = Len(before.tasks)
  /\ after.offscreenDocument = before.offscreenDocument

\* stopAudioCapture has begun for the tab: a handler waits for STOP_CAPTURE.
Stopping(before, after, tabId) ==
  /\ after.tabStates = before.tabStates
  /\ Len(after.tasks) = Len(before.tasks) + 1
  /\ after.tasks[Len(after.tasks)].kind = "navigate"
  /\ after.tasks[Len(after.tasks)].pc = "send"
  /\ after.tasks[Len(after.tasks)].tabId = tabId

\* What follows the await of STOP_CAPTURE: the entry is removed whether the
\* message was answered or failed, and the handler ends by turning the tab's
\* badge off.
StopsAndClearsBadge(before, after) ==
  /\ (/\ after.lastOp.name = "handleTabUpdated"
      /\ after.lastOp.outcome \in {"stopped", "failed"}) =>
        /\ ~has(after.tabStates, after.lastOp.tabId)
        /\ after.tabStates = delete(before.tabStates, after.lastOp.tabId)
        /\ Len(after.tasks) = Len(before.tasks)
  /\ \A i \in DOMAIN before.tasks :
       (before.tasks[i].kind = "navigate" /\ before.tasks[i].pc = "badge") =>
         \/ \E j \in DOMAIN after.tasks :
              /\ after.tasks[j].id = before.tasks[i].id
              /\ after.tasks[j].pc = "badge"
         \/ /\ after.lastOp.name = "updateBadge"
            /\ after.lastOp.outcome = "navigated"
            /\ after.lastOp.tabId = before.tasks[i].tabId

\* C32 as stated: for a tab with an entry, a url of the same origin keeps
\* the entry and updates its url, a url of a different origin removes the
\* entry and turns the tab's badge off; an update without a url, or for a
\* tab without an entry, changes nothing.
C32_TabUpdated ==
  [][ LET before == serviceWorker
          after == serviceWorker'
          tabId == after.lastOp.tabId
          url == after.lastOp.url
      IN /\ Navigated(after) =>
              CASE ~has(before.tabStates, tabId) \/ url = 0 ->
                     Untouched(before, after)
                [] /\ get(before.tabStates, tabId).url # 0
                   /\ origin(get(before.tabStates, tabId).url) = origin(url) ->
                     KeptWithUrl(before, after, tabId, url)
                [] OTHER ->
                     Stopping(before, after, tabId)
         /\ StopsAndClearsBadge(before, after) ]_vars

\* C32, amended: as above for an entry that stores a url; for an entry whose
\* url is null (the tab could not be read when the capture started) a url
\* change changes nothing, whatever its origin.
C32_TabUpdatedKnownUrl ==
  [][ LET before == serviceWorker
          after == serviceWorker'
          tabId == after.lastOp.tabId
          url == after.lastOp.url
      IN /\ Navigated(after) =>
              CASE ~has(before.tabStates, tabId) \/ url = 0 ->
                     Untouched(before, after)
                [] get(before.tabStates, tabId).url = 0 ->
                     Untouched(before, after)
                [] origin(get(before.tabStates, tabId).url) = origin(url) ->
                     KeptWithUrl(before, after, tabId, url)
                [] OTHER ->
                     Stopping(before, after, tabId)
         /\ StopsAndClearsBadge(before, after) ]_vars

\* A tab navigated within its origin and then to another origin: its entry
\* is removed and its badge is turned off.
C32_Witness ==
  /\ serviceWorker # << >>
  /\ serviceWorker.lastOp.name = "updateBadge"
  /\ serviceWorker.lastOp.outcome = "navigated"
  /\ ~has(serviceWorker.tabStates, serviceWorker.lastOp.tabId)
  /\ serviceWorker.tasks = << >>

====
